---- MODULE Spec2Model ----
(***************************************************************************)
(* StarNavigation: the celestial compass navigation algorithm of           *)
(* celestial_compass_navigation_algorithm.md as a state machine.           *)
(*                                                                         *)
(* Geometry.  The trigonometry of the helpers is discretised on one great  *)
(* circle: observer, target and every sub-stellar point lie on the equator *)
(* (latitude 0, declination 0), which is cut into RingSize cells.  A       *)
(* Position is its cell (a longitude), right ascension and time are        *)
(* counted in cells of sidereal rotation, distances in cells.  A cell is a  *)
(* tenth of a kilometre long, the tolerance of positions_equal, so that a  *)
(* position can be within the tolerance of the target and short of it.  On *)
(* that circle the formulas of the helpers give what the operators give:   *)
(* a bearing or azimuth is 90 (east) or 270 (west), the altitude is 90     *)
(* degrees minus the angular distance to the sub-stellar point.            *)
(***************************************************************************)
EXTENDS Integers, Sequences, FiniteSets, TLC

\* ------------------------------------------------------------------ bounds
RingSize == 12          \* cells on the great circle
MaxTicks == 2           \* how far the wall clock advances during the runs

\* ------------------------------------------------------- program constants
VisibilityMagnitude == 6     \* obj.magnitude < 6.0
InitialMinAngular == 360     \* min_angular_distance = 360.0
FullCircle == 360            \* (bearing + 360) % 360, 360 - diff
PositionToleranceTenths == 1 \* positions_equal(..., tolerance=0.1)

Positions == 0 .. (RingSize - 1)
Runs == {1, 2}              \* Route Planner invocations
Procs == {1, 2}             \* address spaces, each with its own catalog
NoneName == "None"          \* Python's None as a reference_object

abs(x) == IF x < 0 THEN -x ELSE x
min(a, b) == IF a < b THEN a ELSE b

\* --------------------------------------------------------------- geodesy
\* Great-circle distance; on the equator it is the shorter arc.
haversine_distance(pos1, pos2) ==
    LET dlon == abs(pos2 - pos1)
    IN  min(dlon, RingSize - dlon)

\* atan2(x, y) with lat1 = lat2 = 0: y = 0 and x = sin(delta_lon), so the
\* bearing is 0 for delta_lon = 0, 90 for 0 < delta_lon <= 180 degrees
\* (sin(pi) is a tiny positive float) and 270 beyond.
calculate_compass_direction(from_pos, to_pos) ==
    LET delta_lon == (to_pos - from_pos) % RingSize
        bearing == IF delta_lon = 0 THEN 0
                   ELSE IF 2 * delta_lon <= RingSize THEN 90 ELSE -90
    IN  (bearing + FullCircle) % FullCircle

\* lat2 = asin(cos(lat1) sin(d) cos(bearing)) stays 0 for bearing 90 / 270;
\* lon2 = lon1 +/- d.  The longitude is kept in its cell range.
move_in_direction(position, bearing_degrees, distance_km) ==
    IF bearing_degrees = 90 THEN (position + distance_km) % RingSize
    ELSE IF bearing_degrees = 270 THEN (position - distance_km) % RingSize
    ELSE position

\* tolerance=0.1 km is one cell.
positions_equal(pos1, pos2) ==
    haversine_distance(pos1, pos2) <= PositionToleranceTenths

\* ---------------------------------------------------- horizon transform
calculate_local_sidereal_time(longitude, observation_time) ==
    (longitude + observation_time) % RingSize

\* ha = lst - ra.  altitude = asin(cos(ha)) = 90 - |ha| degrees.  cos_az = 0,
\* so azimuth = 90, turned to 360 - 90 when sin_az = -sin(ha)/cos(alt) < 0,
\* i.e. for 0 < ha <= 180 degrees (at ha = 0 sin_az is -0.0, not < 0).
calculate_horizontal_coordinates(celestial_obj, observer_pos, observation_time) ==
    LET lst == calculate_local_sidereal_time(observer_pos, observation_time)
        ha == (lst - celestial_obj.right_ascension) % RingSize
        sep == min(ha, RingSize - ha)
        altitude == 90 - ((FullCircle * sep) \div RingSize)
        azimuth == IF ha # 0 /\ 2 * ha <= RingSize THEN FullCircle - 90 ELSE 90
    IN  [azimuth |-> azimuth, altitude |-> altitude]

\* ------------------------------------------------------- catalog filter
\* The loop of get_visible_celestial_objects over all_objects.  The catalog
\* entries are objects shared by reference: the loop assigns obj.azimuth,
\* obj.altitude and obj.is_visible on the entries themselves.
get_visible_catalog(all_objects, observer_pos, observation_time, used_objects) ==
    [i \in DOMAIN all_objects |->
        LET obj == all_objects[i]
            hc == calculate_horizontal_coordinates(obj, observer_pos, observation_time)
        IN  IF obj.name \in used_objects THEN obj
            ELSE [obj EXCEPT !.azimuth = hc.azimuth,
                             !.altitude = hc.altitude,
                             !.is_visible = IF hc.altitude > 0
                                               /\ obj.magnitude < VisibilityMagnitude
                                            THEN TRUE ELSE @]]

\* Faulty variant: the loop without `if obj.name in used_objects: continue`.
get_visible_celestial_objects_reusing(all_objects, observer_pos, observation_time, used_objects) ==
    SelectSeq(get_visible_catalog(all_objects, observer_pos, observation_time, {}),
              LAMBDA obj : /\ obj.altitude > 0
                           /\ obj.magnitude < VisibilityMagnitude)

\* Faulty variant: an object on the horizon (altitude 0) counts as visible.
get_visible_celestial_objects_on_horizon(all_objects, observer_pos, observation_time, used_objects) ==
    SelectSeq(get_visible_catalog(all_objects, observer_pos, observation_time, used_objects),
              LAMBDA obj : /\ obj.name \notin used_objects
                           /\ obj.altitude >= 0
                           /\ obj.magnitude < VisibilityMagnitude)

\* The list the loop returns: the entries appended to visible_objects, in
\* catalog order (evaluated on the catalog the loop has written).
get_visible_celestial_objects(all_objects, observer_pos, observation_time, used_objects) ==
    SelectSeq(get_visible_catalog(all_objects, observer_pos, observation_time, used_objects),
              LAMBDA obj : /\ obj.name \notin used_objects
                           /\ obj.altitude > 0
                           /\ obj.magnitude < VisibilityMagnitude)

\* The mode filter of the Catalog Filter: in "planets/moon only" mode only
\* planets, the Moon and the Sun pass; without the mode every type passes.
MajorTypes == {"planet", "moon", "sun"}

\* Faulty variant: the mode is ignored.
type_permitted_any(object_type, planets_only) == TRUE

type_permitted(object_type, planets_only) ==
    planets_only => object_type \in MajorTypes

\* visible_objects(observer, time, excluded_names, type_filter): the list of
\* get_visible_celestial_objects, narrowed to the types the mode permits.
catalog_filter(all_objects, observer_pos, observation_time, used_objects, planets_only) ==
    SelectSeq(get_visible_celestial_objects(all_objects, observer_pos,
                                            observation_time, used_objects),
              LAMBDA obj : type_permitted(obj.object_type, planets_only))

\* ---------------------------------------------------- object selection
NoObject == [name |-> NoneName]

\* Faulty variant: the difference is not folded at the half circle.
angular_distance_unfolded(azimuth, target_bearing) ==
    abs(azimuth - target_bearing)

\* diff = abs(obj.azimuth - target_bearing);
\* angular_distance = min(diff, 360 - diff)
angular_distance(azimuth, target_bearing) ==
    LET diff == abs(azimuth - target_bearing)
    IN  min(diff, FullCircle - diff)

RECURSIVE select_best_loop(_, _, _, _, _)
select_best_loop(target_bearing, visible_objects, i, best_object, min_angular_distance) ==
    IF i > Len(visible_objects) THEN best_object
    ELSE LET obj == visible_objects[i]
             distance == angular_distance(obj.azimuth, target_bearing)
         IN  IF distance < min_angular_distance
             THEN select_best_loop(target_bearing, visible_objects, i + 1,
                                   obj, distance)
             ELSE select_best_loop(target_bearing, visible_objects, i + 1,
                                   best_object, min_angular_distance)

select_best_celestial_object(target_bearing, visible_objects) ==
    select_best_loop(target_bearing, visible_objects, 1, NoObject, InitialMinAngular)

\* "Prioritize major" mode: the angular error of a planet, the Moon or the
\* Sun is shrunk by a fixed fraction before the comparison.
MajorDiscountPercent == 50

\* Faulty variant: the discount is given to every candidate.
weighted_error_for_all(obj, target_bearing, prioritize_major) ==
    IF prioritize_major
    THEN (angular_distance(obj.azimuth, target_bearing) * MajorDiscountPercent) \div 100
    ELSE angular_distance(obj.azimuth, target_bearing)

weighted_error(obj, target_bearing, prioritize_major) ==
    IF prioritize_major /\ obj.object_type \in MajorTypes
    THEN (angular_distance(obj.azimuth, target_bearing) * MajorDiscountPercent) \div 100
    ELSE angular_distance(obj.azimuth, target_bearing)

\* The loop of select_best_celestial_object, comparing the weighted errors.
RECURSIVE select_weighted_loop(_, _, _, _, _, _)
select_weighted_loop(target_bearing, visible_objects, prioritize_major, i, best_object, min_error) ==
    IF i > Len(visible_objects) THEN best_object
    ELSE LET obj == visible_objects[i]
             error == weighted_error(obj, target_bearing, prioritize_major)
         IN  IF error < min_error
             THEN select_weighted_loop(target_bearing, visible_objects,
                                       prioritize_major, i + 1, obj, error)
             ELSE select_weighted_loop(target_bearing, visible_objects,
                                       prioritize_major, i + 1, best_object, min_error)

\* Step 4 of the Route Planner with the mode of the request.
select_best_object(target_bearing, visible_objects, prioritize_major) ==
    IF prioritize_major
    THEN select_weighted_loop(target_bearing, visible_objects, prioritize_major,
                              1, NoObject, InitialMinAngular)
    ELSE select_best_celestial_object(target_bearing, visible_objects)

\* ------------------------------------------------------------- state
VARIABLES
    catalog,    \* catalog[p]: the list query_celestial_catalog() returns in
                \* address space p; its entries carry azimuth/altitude/is_visible
    now,        \* what datetime.now() returns
    run,        \* run[r]: the frame of invocation r of navigate_by_celestial_objects
    sel,        \* a call of select_best_celestial_object: arguments and result
    rset,       \* the frame of the Route Set Builder serving one request
    store,      \* the frontend's navigation store (useNavigationStore)
    app,        \* the App component's own state and its HTTP exchanges
    sim         \* the refs of the useRouteSimulation hook

vars == <<catalog, now, run, sel, rset, store, app, sim>>

CatalogNames == <<"Sirius", "Vega", "Canopus">>
CatalogSize == Len(CatalogNames)

\* CelestialObject as the catalog provider delivers it (dynamic fields unset)
CelestialObject(name, ra, magnitude, object_type) ==
    [name |-> name, right_ascension |-> ra, magnitude |-> magnitude,
     object_type |-> object_type,
     azimuth |-> 0, altitude |-> 0, is_visible |-> FALSE]

Waypoint(position, reference_object, reason, timestamp) ==
    [position |-> position, reference_object |-> reference_object,
     reason |-> reason, timestamp |-> timestamp]

NavigationState(start_position, target_position) ==
    [current_position |-> start_position,
     target_position |-> target_position,
     used_objects |-> {},
     waypoints |-> <<>>,
     iteration_count |-> 0]

\* No leg in progress: the locals of follow_celestial_object do not exist.
NoLeg == [current_pos |-> 0, previous_distance |-> 0,
          closest_point |-> 0, closest_distance |-> 0]

\* No step of a leg taken yet.
NoStep == [from |-> 0, from_altitude |-> 0, to |-> 0, to_altitude |-> 0]

\* The frame of one invocation.  outcome/returned/error are what the caller
\* gets; leg_start and leg_visited record the positions the current (or last)
\* leg has evaluated, leg_altitude the altitude of the followed object as
\* evaluated at the leg's current position, and last_step the positions and
\* altitudes of the latest step, for the statements about a leg.
Invocation(p, phase, start_position, target_position, max_iterations, step_size_km) ==
    [phase |-> phase, proc |-> p,
     start_position |-> start_position,
     max_iterations |-> max_iterations,
     step_size_km |-> step_size_km,
     planets_only |-> FALSE,
     prioritize_major |-> FALSE,
     nav_state |-> NavigationState(start_position, target_position),
     best_object |-> NoneName,
     leg |-> NoLeg,
     outcome |-> "none", returned |-> <<>>, error |-> "",
     leg_start |-> start_position, leg_visited |-> {},
     leg_altitude |-> 0, last_step |-> NoStep]

\* ------------------------------------------------- leg follower (Step 4)
\* follow_celestial_object up to the loop: the locals before `while True`.
follow_init(nav_state) ==
    [current_pos |-> nav_state.current_position,
     previous_distance |-> haversine_distance(nav_state.current_position,
                                              nav_state.target_position),
     closest_point |-> nav_state.current_position,
     closest_distance |-> haversine_distance(nav_state.current_position,
                                             nav_state.target_position)]

\* Faulty variant: the position at which the object has set is returned.
object_lost_result_at_loss(leg, next_pos) == next_pos

\* `return current_pos, "object_lost"`, before `current_pos = next_pos`.
object_lost_result(leg, next_pos) == leg.current_pos

\* Faulty variant: the receding position is returned instead of the tracked one.
closest_approach_result_receding(leg, next_pos) == next_pos

closest_approach_result(leg, next_pos) == leg.closest_point

target_reached_result(leg, next_pos) == next_pos

\* Faulty variant: the leg goes on when the distance grows.
is_receding_ignored(current_distance, previous_distance) == FALSE

is_receding(current_distance, previous_distance) ==
    current_distance > previous_distance

leg_target_reached(current_distance, step_size_km) ==
    current_distance < step_size_km

\* "Update tracking" and the two assignments after it.
track_closest(leg, next_pos, current_distance) ==
    [current_pos |-> next_pos,
     previous_distance |-> current_distance,
     closest_point |-> IF current_distance < leg.closest_distance
                       THEN next_pos ELSE leg.closest_point,
     closest_distance |-> IF current_distance < leg.closest_distance
                          THEN current_distance ELSE leg.closest_distance]

\* One pass of the `while True` body.  reference_object is the catalog entry
\* the leg follows (read through the reference at the time of the pass).
follow_celestial_object(leg, reference_object, target_pos, step_size_km, t) ==
    LET next_pos == move_in_direction(leg.current_pos, reference_object.azimuth,
                                      step_size_km)
        hc == calculate_horizontal_coordinates(reference_object, next_pos, t)
        current_distance == haversine_distance(next_pos, target_pos)
        tracked == track_closest(leg, next_pos, current_distance)
        base == [next_pos |-> next_pos, hc |-> hc]
    IN  IF hc.altitude <= 0
        THEN base @@ [returns |-> TRUE, reason |-> "object_lost",
                      final_pos |-> object_lost_result(leg, next_pos), leg |-> leg]
        ELSE IF is_receding(current_distance, leg.previous_distance)
        THEN base @@ [returns |-> TRUE, reason |-> "closest_approach",
                      final_pos |-> closest_approach_result(leg, next_pos), leg |-> leg]
        ELSE IF leg_target_reached(current_distance, step_size_km)
        THEN base @@ [returns |-> TRUE, reason |-> "target_reached",
                      final_pos |-> target_reached_result(tracked, next_pos),
                      leg |-> tracked]
        ELSE base @@ [returns |-> FALSE, reason |-> "",
                      final_pos |-> next_pos, leg |-> tracked]

\* ------------------------------------------------ route planner (Step 5)
loop_guard(nav_state, max_iterations) ==
    nav_state.iteration_count < max_iterations

\* Faulty variant: the error carries the waypoints logged so far to the caller.
raise_navigation_error_partial(st, message) ==
    [st EXCEPT !.phase = "FAILED", !.outcome = "NavigationError",
               !.error = message, !.returned = st.nav_state.waypoints]

\* raise NavigationError(...): the frame is left, the caller gets the error
\* and no waypoint list.
raise_navigation_error(st, message) ==
    [st EXCEPT !.phase = "FAILED", !.outcome = "NavigationError",
               !.error = message, !.returned = <<>>]

\* Faulty variant: the waypoints are returned without the final entry.
return_waypoints_unterminated(st, t) ==
    [st EXCEPT !.phase = "DONE", !.outcome = "waypoints",
               !.returned = st.nav_state.waypoints]

\* The target check of the loop: append the final waypoint, return waypoints.
return_waypoints(st, t) ==
    LET final == Waypoint(st.nav_state.current_position, NoneName,
                          "target_reached", t)
    IN  [st EXCEPT !.nav_state.waypoints = Append(@, final),
                   !.phase = "DONE", !.outcome = "waypoints",
                   !.returned = Append(st.nav_state.waypoints, final)]

\* Faulty variant: the name of the object is not recorded.
mark_used_forgetful(used_objects, name) == used_objects

\* nav_state.used_objects.add(best_object.name)
mark_used(used_objects, name) == used_objects \cup {name}

\* Faulty variant: Step 5 without `nav_state.iteration_count += 1`.
record_waypoint_uncounted(st, final_pos, reason, t) ==
    [st EXCEPT !.nav_state.waypoints =
                   Append(@, Waypoint(final_pos, st.best_object, reason, t)),
               !.nav_state.used_objects = mark_used(@, st.best_object),
               !.nav_state.current_position = final_pos,
               !.phase = "SEEKING_OBJECT",
               !.leg = NoLeg]

\* "Step 5: Record waypoint and update state", after the leg has returned.
record_waypoint(st, final_pos, reason, t) ==
    [st EXCEPT !.nav_state.waypoints =
                   Append(@, Waypoint(final_pos, st.best_object, reason, t)),
               !.nav_state.used_objects = mark_used(@, st.best_object),
               !.nav_state.current_position = final_pos,
               !.nav_state.iteration_count = @ + 1,
               !.phase = "SEEKING_OBJECT",
               !.leg = NoLeg]

CatalogIndex(all_objects, name) ==
    CHOOSE i \in DOMAIN all_objects : all_objects[i].name = name

\* Faulty variant: the emptiness test of the candidate list is missing.
no_candidates_unchecked(visible_objects) == FALSE

\* `if not visible_objects`
no_candidates(visible_objects) == visible_objects = <<>>

NoVisibleMessage == "No visible celestial objects available for navigation"
ExceededMessage == "Exceeded maximum iterations"

\* One pass of the `while` of navigate_by_celestial_objects, from the loop
\* test to the call of follow_celestial_object.  Gives the frame and the
\* catalog after the pass.
navigate_pass(st, all_objects, t) ==
    LET ns == st.nav_state
        target_bearing == calculate_compass_direction(ns.current_position,
                                                      ns.target_position)
        written == get_visible_catalog(all_objects, ns.current_position, t,
                                       ns.used_objects)
        visible_objects == catalog_filter(all_objects, ns.current_position, t,
                                          ns.used_objects, st.planets_only)
        best_object == select_best_object(target_bearing, visible_objects,
                                          st.prioritize_major)
    IN  IF ~loop_guard(ns, st.max_iterations)
        THEN [run |-> raise_navigation_error(st, ExceededMessage),
              catalog |-> all_objects]
        ELSE IF positions_equal(ns.current_position, ns.target_position)
        THEN [run |-> return_waypoints(st, t), catalog |-> all_objects]
        ELSE IF no_candidates(visible_objects)
        THEN [run |-> raise_navigation_error(
                          st, NoVisibleMessage),
              catalog |-> written]
        ELSE IF best_object.name = NoneName
        THEN [run |-> raise_navigation_error(
                          st, "Could not find suitable celestial reference"),
              catalog |-> written]
        ELSE [run |-> [st EXCEPT !.phase = "FOLLOWING",
                                 !.best_object = best_object.name,
                                 !.leg = follow_init(ns),
                                 !.leg_start = ns.current_position,
                                 !.leg_visited = {ns.current_position},
                                 !.leg_altitude = best_object.altitude,
                                 !.last_step = NoStep],
              catalog |-> written]

\* One pass of the `while True` of follow_celestial_object for the frame,
\* with Step 5 of the planner when the leg returns.
navigate_leg(st, all_objects, t) ==
    LET i == CatalogIndex(all_objects, st.best_object)
        f == follow_celestial_object(st.leg, all_objects[i],
                                     st.nav_state.target_position,
                                     st.step_size_km, t)
        written == [all_objects EXCEPT ![i].azimuth = f.hc.azimuth,
                                       ![i].altitude = f.hc.altitude]
        seen == [st EXCEPT !.leg_visited = @ \cup {f.next_pos},
                           !.leg_altitude = f.hc.altitude,
                           !.last_step = [from |-> st.leg.current_pos,
                                          from_altitude |-> st.leg_altitude,
                                          to |-> f.next_pos,
                                          to_altitude |-> f.hc.altitude]]
    IN  IF f.returns
        THEN [run |-> record_waypoint(seen, f.final_pos, f.reason, t),
              catalog |-> written]
        ELSE [run |-> [seen EXCEPT !.leg = f.leg], catalog |-> written]

\* ------------------------------------------------------------- actions
Commit(r, result) ==
    /\ run' = [run EXCEPT ![r] = result.run]
    /\ catalog' = [catalog EXCEPT ![run[r].proc] = result.catalog]
    /\ UNCHANGED <<now, sel, rset, store, app, sim>>

Seeking(r) == run[r].phase = "SEEKING_OBJECT"
Following(r) == run[r].phase = "FOLLOWING"

VisibleNow(r) ==
    catalog_filter(catalog[run[r].proc], run[r].nav_state.current_position, now,
                   run[r].nav_state.used_objects, run[r].planets_only)

LegNow(r) ==
    LET all_objects == catalog[run[r].proc]
    IN  follow_celestial_object(run[r].leg,
                                all_objects[CatalogIndex(all_objects, run[r].best_object)],
                                run[r].nav_state.target_position,
                                run[r].step_size_km, now)

MaxIterationsExceeded(r) ==
    /\ Seeking(r)
    /\ ~loop_guard(run[r].nav_state, run[r].max_iterations)
    /\ Commit(r, navigate_pass(run[r], catalog[run[r].proc], now))

TargetReached(r) ==
    /\ Seeking(r)
    /\ loop_guard(run[r].nav_state, run[r].max_iterations)
    /\ positions_equal(run[r].nav_state.current_position,
                       run[r].nav_state.target_position)
    /\ Commit(r, navigate_pass(run[r], catalog[run[r].proc], now))

NoVisibleObjects(r) ==
    /\ Seeking(r)
    /\ loop_guard(run[r].nav_state, run[r].max_iterations)
    /\ ~positions_equal(run[r].nav_state.current_position,
                        run[r].nav_state.target_position)
    /\ VisibleNow(r) = <<>>
    /\ Commit(r, navigate_pass(run[r], catalog[run[r].proc], now))

SelectObject(r) ==
    /\ Seeking(r)
    /\ loop_guard(run[r].nav_state, run[r].max_iterations)
    /\ ~positions_equal(run[r].nav_state.current_position,
                        run[r].nav_state.target_position)
    /\ VisibleNow(r) # <<>>
    /\ Commit(r, navigate_pass(run[r], catalog[run[r].proc], now))

FollowStep(r) ==
    /\ Following(r)
    /\ ~LegNow(r).returns
    /\ Commit(r, navigate_leg(run[r], catalog[run[r].proc], now))

ObjectLost(r) ==
    /\ Following(r)
    /\ LegNow(r).reason = "object_lost"
    /\ Commit(r, navigate_leg(run[r], catalog[run[r].proc], now))

ClosestApproach(r) ==
    /\ Following(r)
    /\ LegNow(r).reason = "closest_approach"
    /\ Commit(r, navigate_leg(run[r], catalog[run[r].proc], now))

LegTargetReached(r) ==
    /\ Following(r)
    /\ LegNow(r).reason = "target_reached"
    /\ Commit(r, navigate_leg(run[r], catalog[run[r].proc], now))

\* The wall clock advances between two reads of datetime.now().
Tick ==
    /\ now < MaxTicks
    /\ now' = now + 1
    /\ UNCHANGED <<catalog, run, sel, rset, store, app, sim>>

RunStep(r) ==
    \/ MaxIterationsExceeded(r)
    \/ TargetReached(r)
    \/ NoVisibleObjects(r)
    \/ SelectObject(r)
    \/ FollowStep(r)
    \/ ObjectLost(r)
    \/ ClosestApproach(r)
    \/ LegTargetReached(r)

Next == (\E r \in Runs : RunStep(r)) \/ Tick

\* ------------------------------------------------------- frontend store
\* A Position of the frontend ({latitude, longitude} in degrees), or null.
NullPosition == [null |-> TRUE, latitude |-> 0, longitude |-> 0]

LatLon(latitude, longitude) ==
    [null |-> FALSE, latitude |-> latitude, longitude |-> longitude]

\* No route: what routes.find gives for an unknown id on an empty list, and
\* the null of selectedRouteId.
NoRoute == [id |-> 0]

\* selectedWaypoint: null.
NullWaypoint == [null |-> TRUE]

\* Default center (Berlin), to the degree.
DEFAULT_CENTER == LatLon(52, 13)

\* simulationProgress is kept in steps of 1 / ProgressUnits, so that
\* ProgressUnits stands for 1; simulationSpeed is kept in halves, the
\* smallest speed the controls offer, so that HalfSpeedsPerUnit stands for 1x.
ProgressUnits == 12
HalfSpeedsPerUnit == 2

\* The name a location gets when none is given: its coordinates as text,
\* empty for no location.
LocationName(location) ==
    IF location.null THEN <<>> ELSE <<location.latitude, location.longitude>>

\* The initial state of useNavigationStore.
InitialStore ==
    [startLocation |-> NullPosition,
     targetLocation |-> NullPosition,
     startLocationName |-> <<>>,
     targetLocationName |-> <<>>,
     routes |-> <<>>,
     selectedRouteId |-> NoRoute.id,
     isCalculating |-> FALSE,
     error |-> "",
     selectedWaypoint |-> NullWaypoint,
     sidebarOpen |-> TRUE,
     mapCenter |-> DEFAULT_CENTER,
     mapZoom |-> 5,
     selectedTime |-> "null",
     useCurrentTime |-> TRUE,
     prioritizeMajor |-> FALSE,
     planetsOnly |-> FALSE,
     maxRoutes |-> 1,
     isSimulating |-> FALSE,
     simulationProgress |-> 0,
     simulationSpeed |-> HalfSpeedsPerUnit,
     currentSimulationPosition |-> NullPosition]

\* The hook has no frame requested, no time of a last frame and no path;
\* reloaded records that the page has been loaded again and not been
\* touched since.
NoFrame == [pending |-> FALSE, simulationProgress |-> 0, simulationSpeed |-> 0]

InitialSim ==
    [requestRef |-> NoFrame,
     lastTimeRef |-> "undefined",
     routePoints |-> <<>>,
     segmentDistances |-> <<>>,
     totalDistance |-> 0,
     segmentIndex |-> 0,
     segmentProgress |-> <<0, 1>>,
     reloaded |-> FALSE]

\* The App component: its error state, its map click mode and the HTTP
\* exchanges of navigationApi.calculateRoute that have not settled.
InitialApp ==
    [error |-> "", clickMode |-> "none", http |-> <<>>]

\* -------------------------------------------------------------- inputs
RAChoices == {0, 3, 6}
MagnitudeChoices == {2, 6}
TargetChoices == {0}
StepSizeChoices == {2, 3}
MaxIterationsChoices == {2, 4}

ObjectType(name) ==
    CASE name = "Venus" -> "planet"
      [] name = "Moon" -> "moon"
      [] name = "Sun" -> "sun"
      [] OTHER -> "star"

\* What the second catalog entry may be instead of Vega.
SecondNames == {"Vega", "Venus", "Moon", "Sun"}

\* Catalogs of CatalogSize objects, at most one of them too faint to be seen.
CatalogsOf(seconds) ==
    { [i \in 1 .. CatalogSize |->
          LET name == IF i = 2 THEN second ELSE CatalogNames[i]
          IN  CelestialObject(name, ra[i], mag[i], ObjectType(name))] :
      second \in seconds,
      ra \in [1 .. CatalogSize -> RAChoices],
      mag \in { m \in [1 .. CatalogSize -> MagnitudeChoices] :
                  Cardinality({i \in 1 .. CatalogSize :
                                  m[i] >= VisibilityMagnitude}) <= 1 } }

Catalogs == CatalogsOf({"Vega"})

Idle == Invocation(1, "IDLE", 0, 0, 0, 1)

\* No call of select_best_celestial_object under observation.
NoSelection == [target_bearing |-> 0, visible_objects |-> <<>>,
                prioritize_major |-> FALSE,
                best_object |-> NoObject, called |-> FALSE]

\* No request to the Route Set Builder.
NoRequest == [phase |-> "IDLE", max_routes |-> 0, variant |-> 0, seed |-> {},
              outcomes |-> <<>>, routes |-> <<>>, error |-> "",
              start |-> 0, target |-> 0, step_size_km |-> 0,
              max_iterations |-> 0, planets_only |-> FALSE]

\* One invocation, alone in its address space.
Init ==
    /\ now = 0
    /\ store = InitialStore
    /\ app = InitialApp
    /\ sim = InitialSim
    /\ sel = NoSelection
    /\ rset = NoRequest
    /\ \E c \in Catalogs : catalog = [p \in Procs |-> c]
    /\ \E start \in Positions, target \in TargetChoices,
          m \in MaxIterationsChoices, s \in StepSizeChoices :
          run = [r \in Runs |->
                    IF r = 1 THEN Invocation(1, "SEEKING_OBJECT", start, target, m, s)
                    ELSE Idle]

Spec == Init /\ [][Next]_vars

\* Catalogs whose second entry is a star, a planet, the Moon or the Sun; the
\* third entry stands over the antipode of the target.
TypedCatalogs ==
    { c \in CatalogsOf(SecondNames) : c[3].right_ascension = 6 }

\* The modes of a request: the two switches exclude each other.
Modes == {"none", "planets_only", "prioritize_major"}

\* One invocation in one of the modes.
InitMode ==
    /\ now = 0
    /\ store = InitialStore
    /\ app = InitialApp
    /\ sim = InitialSim
    /\ sel = NoSelection
    /\ rset = NoRequest
    /\ \E c \in TypedCatalogs : catalog = [p \in Procs |-> c]
    /\ \E start \in Positions, target \in TargetChoices,
          m \in MaxIterationsChoices, s \in StepSizeChoices, mode \in Modes :
          run = [r \in Runs |->
                    IF r = 1
                    THEN [Invocation(1, "SEEKING_OBJECT", start, target, m, s)
                             EXCEPT !.planets_only = (mode = "planets_only"),
                                    !.prioritize_major = (mode = "prioritize_major")]
                    ELSE Idle]

SpecMode == InitMode /\ [][Next]_vars

\* A catalog with objects over the target, a quarter turn away and over the
\* antipode of the target; the middle one may be too faint.
SpreadCatalogs ==
    { c \in Catalogs :
        /\ c[1].right_ascension = 0 /\ c[1].magnitude < VisibilityMagnitude
        /\ c[2].right_ascension = 3 /\ c[2].name = "Vega"
        /\ c[3].right_ascension = 6 /\ c[3].magnitude < VisibilityMagnitude }

InitFair ==
    /\ now = 0
    /\ store = InitialStore
    /\ app = InitialApp
    /\ sim = InitialSim
    /\ sel = NoSelection
    /\ rset = NoRequest
    /\ \E c \in SpreadCatalogs : catalog = [p \in Procs |-> c]
    /\ \E start \in Positions, target \in TargetChoices,
          m \in MaxIterationsChoices, s \in StepSizeChoices :
          run = [r \in Runs |->
                    IF r = 1 THEN Invocation(1, "SEEKING_OBJECT", start, target, m, s)
                    ELSE Idle]

\* The interpreter keeps executing an invocation that has a statement to
\* execute; nothing obliges the clock to have advanced between two reads.
FairSpec == InitFair /\ [][Next]_vars /\ \A r \in Runs : WF_vars(RunStep(r))

\* Two invocations in one address space (two threads of a worker pool): the
\* list query_celestial_catalog() returns holds the same objects for both.
\* The observation instant is the same for every read of the clock.
InitPar ==
    /\ now = 0
    /\ store = InitialStore
    /\ app = InitialApp
    /\ sim = InitialSim
    /\ sel = NoSelection
    /\ rset = NoRequest
    /\ \E c \in SpreadCatalogs : catalog = [p \in Procs |-> c]
    /\ \E start1 \in Positions, start2 \in Positions, target \in TargetChoices,
          m \in MaxIterationsChoices, s \in StepSizeChoices :
          run = [r \in Runs |->
                    Invocation(1, "SEEKING_OBJECT",
                               IF r = 1 THEN start1 ELSE start2, target, m, s)]

NextPar == \E r \in Runs : RunStep(r)

SpecPar == InitPar /\ [][NextPar]_vars

\* Two invocations with the same arguments on the same catalog snapshot, each
\* in an address space of its own, while the wall clock runs.
InitDet ==
    /\ now = 0
    /\ store = InitialStore
    /\ app = InitialApp
    /\ sim = InitialSim
    /\ sel = NoSelection
    /\ rset = NoRequest
    /\ \E c \in SpreadCatalogs : catalog = [p \in Procs |-> c]
    /\ \E start \in Positions, target \in TargetChoices,
          m \in MaxIterationsChoices, s \in StepSizeChoices :
          run = [r \in Runs |-> Invocation(r, "SEEKING_OBJECT", start, target, m, s)]

SpecDet == InitDet /\ [][Next]_vars

\* ------------------------------------- select_best_celestial_object alone
SelectionAngles == {0, 10, 90, 180, 350}
SelectionMagnitudes == {1, 2}

\* A visible object as get_visible_celestial_objects hands it over.
VisibleObject(name, azimuth, magnitude) ==
    [CelestialObject(name, 0, magnitude, ObjectType(name))
        EXCEPT !.azimuth = azimuth, !.altitude = 45, !.is_visible = TRUE]

\* The lists of up to CatalogSize visible objects with distinct names.
CandidateLists ==
    UNION { { [i \in 1 .. n |-> VisibleObject(CatalogNames[order[i]], az[i], mag[i])] :
              order \in { f \in [1 .. n -> 1 .. CatalogSize] :
                            \A i, j \in 1 .. n : i # j => f[i] # f[j] },
              az \in [1 .. n -> SelectionAngles],
              mag \in [1 .. n -> SelectionMagnitudes] } :
            n \in 0 .. CatalogSize }

InitSelect ==
    /\ now = 0
    /\ store = InitialStore
    /\ app = InitialApp
    /\ sim = InitialSim
    /\ rset = NoRequest
    /\ catalog = [p \in Procs |-> <<>>]
    /\ run = [r \in Runs |-> Idle]
    /\ \E tb \in SelectionAngles, vis \in CandidateLists :
          sel = [NoSelection EXCEPT !.target_bearing = tb, !.visible_objects = vis]

SelectBest ==
    /\ ~sel.called
    /\ sel' = [sel EXCEPT !.best_object = select_best_celestial_object(
                                              sel.target_bearing, sel.visible_objects),
                          !.called = TRUE]
    /\ UNCHANGED <<catalog, now, run, rset, store, app, sim>>

SpecSelect == InitSelect /\ [][SelectBest]_vars

\* ------------------------------------------ selection with the mode alone
\* Candidates for the selection in "prioritize major" mode: a star, a planet
\* and the Moon.
TypedNames == <<"Sirius", "Venus", "Moon">>

TypedCandidateLists ==
    UNION { { [i \in 1 .. n |-> VisibleObject(TypedNames[order[i]], az[i], 1)] :
              order \in { f \in [1 .. n -> DOMAIN TypedNames] :
                            \A i, j \in 1 .. n : i # j => f[i] # f[j] },
              az \in [1 .. n -> SelectionAngles] } :
            n \in 0 .. Len(TypedNames) }

InitWeighted ==
    /\ now = 0
    /\ store = InitialStore
    /\ app = InitialApp
    /\ sim = InitialSim
    /\ rset = NoRequest
    /\ catalog = [p \in Procs |-> <<>>]
    /\ run = [r \in Runs |-> Idle]
    /\ \E tb \in SelectionAngles, vis \in TypedCandidateLists, mode \in BOOLEAN :
          sel = [NoSelection EXCEPT !.target_bearing = tb, !.visible_objects = vis,
                                    !.prioritize_major = mode]

SelectBestObject ==
    /\ ~sel.called
    /\ sel' = [sel EXCEPT !.best_object = select_best_object(
                                              sel.target_bearing, sel.visible_objects,
                                              sel.prioritize_major),
                          !.called = TRUE]
    /\ UNCHANGED <<catalog, now, run, rset, store, app, sim>>

SpecWeighted == InitWeighted /\ [][SelectBestObject]_vars

\* --------------------------------------------------------- route result
\* The length of the path through the positions, leg by leg.
RECURSIVE path_length(_)
path_length(positions) ==
    IF Len(positions) < 2 THEN 0
    ELSE haversine_distance(positions[1], positions[2]) + path_length(Tail(positions))

\* total_distance: the summed length of the legs, from the start through the
\* waypoints in order.
total_distance(start_position, waypoints) ==
    path_length(<<start_position>> \o [i \in DOMAIN waypoints |-> waypoints[i].position])

direct_distance(start_position, target_position) ==
    haversine_distance(start_position, target_position)

\* Faulty variant: every RouteResult of a request carries the same id.
RouteResult_unnumbered(k, st) ==
    [id |-> 1,
     label |-> <<"Route", k>>,
     waypoints |-> st.returned,
     total_distance |-> total_distance(st.start_position, st.returned),
     direct_distance |-> direct_distance(st.start_position,
                                         st.nav_state.target_position),
     iterations |-> st.nav_state.iteration_count,
     used_objects |-> st.nav_state.used_objects]

\* The RouteResult of a completed run, the k-th of its request.
RouteResult(k, st) ==
    [id |-> k,
     label |-> <<"Route", k>>,
     waypoints |-> st.returned,
     total_distance |-> total_distance(st.start_position, st.returned),
     direct_distance |-> direct_distance(st.start_position,
                                         st.nav_state.target_position),
     iterations |-> st.nav_state.iteration_count,
     used_objects |-> st.nav_state.used_objects]

\* ----------------------------------------------------- route set builder
\* The Route Set Builder serves one request for up to max_routes routes: it
\* runs the Route Planner once per variant, in generation order, in the
\* frame run[1], and assembles the RouteResults.
MaxRoutesChoices == {1, 2, 3}

\* A waypoint sequence as a path: positions, reference objects and reasons.
route_shape(waypoints) ==
    [i \in DOMAIN waypoints |->
        [position |-> waypoints[i].position,
         reference_object |-> waypoints[i].reference_object,
         reason |-> waypoints[i].reason]]

\* The first chosen object of a returned route, for the forced exclusion.
first_chosen(waypoints) ==
    IF waypoints # <<>> /\ waypoints[1].reference_object # NoneName
    THEN {waypoints[1].reference_object}
    ELSE {}

\* Faulty variant: the forced exclusion is not handed to the run.
start_variant_unseeded(req) ==
    [Invocation(1, "SEEKING_OBJECT", req.start, req.target,
                req.max_iterations, req.step_size_km)
        EXCEPT !.planets_only = req.planets_only]

\* The Route Planner run of the next variant: the baseline for variant 1,
\* with used_objects seeded by the forced exclusion for the later ones.
start_variant(req) ==
    [Invocation(1, "SEEKING_OBJECT", req.start, req.target,
                req.max_iterations, req.step_size_km)
        EXCEPT !.planets_only = req.planets_only,
               !.nav_state.used_objects = req.seed]

\* Faulty variant: a failed variant is taken for a route.
variant_succeeded_always(st) == TRUE

variant_succeeded(st) == st.phase = "DONE"

\* Faulty variant: the forced exclusion is trusted to make variants distinct.
is_duplicate_never(routes, waypoints) == FALSE

\* Additional variants must be distinct from the routes already assembled.
is_duplicate(routes, waypoints) ==
    \E i \in DOMAIN routes :
        route_shape(routes[i].waypoints) = route_shape(waypoints)

\* Faulty variant: the first failure ends the request, the siblings never run.
collect_variant_aborting(req, st) ==
    IF ~variant_succeeded(st)
    THEN [req EXCEPT !.outcomes = Append(@, "FAILED"),
                     !.error = IF @ = "" THEN st.error ELSE @,
                     !.variant = req.max_routes + 1]
    ELSE IF is_duplicate(req.routes, st.returned)
    THEN [req EXCEPT !.outcomes = Append(@, "DUPLICATE"),
                     !.variant = @ + 1]
    ELSE [req EXCEPT !.outcomes = Append(@, "DONE"),
                     !.routes = Append(@, RouteResult(Len(req.routes) + 1, st)),
                     !.seed = @ \cup first_chosen(st.returned),
                     !.variant = @ + 1]

\* The variant that has ended is assembled into the set, or dropped silently.
collect_variant(req, st) ==
    IF ~variant_succeeded(st)
    THEN [req EXCEPT !.outcomes = Append(@, "FAILED"),
                     !.error = IF @ = "" THEN st.error ELSE @,
                     !.variant = @ + 1]
    ELSE IF is_duplicate(req.routes, st.returned)
    THEN [req EXCEPT !.outcomes = Append(@, "DUPLICATE"),
                     !.variant = @ + 1]
    ELSE [req EXCEPT !.outcomes = Append(@, "DONE"),
                     !.routes = Append(@, RouteResult(Len(req.routes) + 1, st)),
                     !.seed = @ \cup first_chosen(st.returned),
                     !.variant = @ + 1]

\* The answer to the caller: the routes, or the underlying error if every
\* variant failed.
respond(req) ==
    IF req.routes = <<>>
    THEN [req EXCEPT !.phase = "FAILED"]
    ELSE [req EXCEPT !.phase = "RETURNED", !.error = ""]

\* routes.find(r => r.id === selectedRouteId) || (routes.length > 0 ?
\* routes[0] : null): the first route with the id, else the first route.
selectedRoute(routes, selectedRouteId) ==
    IF \E i \in DOMAIN routes : routes[i].id = selectedRouteId
    THEN routes[CHOOSE i \in DOMAIN routes :
                    /\ routes[i].id = selectedRouteId
                    /\ \A j \in DOMAIN routes :
                          routes[j].id = selectedRouteId => i <= j]
    ELSE IF routes # <<>> THEN routes[1] ELSE NoRoute

Building == rset.phase = "BUILDING"

StartVariant ==
    /\ Building
    /\ run[1].phase = "IDLE"
    /\ rset.variant <= rset.max_routes
    /\ run' = [run EXCEPT ![1] = start_variant(rset)]
    /\ UNCHANGED <<catalog, now, sel, rset, store, app, sim>>

CollectVariant ==
    /\ Building
    /\ run[1].phase \in {"DONE", "FAILED"}
    /\ rset' = collect_variant(rset, run[1])
    /\ run' = [run EXCEPT ![1] = Idle]
    /\ UNCHANGED <<catalog, now, sel, store, app, sim>>

Respond ==
    /\ Building
    /\ run[1].phase = "IDLE"
    /\ rset.variant > rset.max_routes
    /\ rset' = respond(rset)
    /\ UNCHANGED <<catalog, now, run, sel, store, app, sim>>

\* Catalogs of bright objects, the third over the antipode of the target.
SetCatalogs ==
    { c \in Catalogs :
        /\ \A i \in DOMAIN c : c[i].magnitude < VisibilityMagnitude
        /\ c[3].right_ascension = 6 }

InitSet ==
    /\ now = 0
    /\ store = InitialStore
    /\ app = InitialApp
    /\ sim = InitialSim
    /\ sel = NoSelection
    /\ \E c \in SetCatalogs : catalog = [p \in Procs |-> c]
    /\ run = [r \in Runs |-> Idle]
    /\ \E start \in Positions, target \in TargetChoices,
          m \in MaxIterationsChoices, s \in StepSizeChoices,
          n \in MaxRoutesChoices :
          rset = [NoRequest EXCEPT !.phase = "BUILDING", !.max_routes = n,
                                   !.variant = 1, !.start = start,
                                   !.target = target, !.step_size_km = s,
                                   !.max_iterations = m]

NextSet == Next \/ StartVariant \/ CollectVariant \/ Respond

SpecSet == InitSet /\ [][NextSet]_vars

\* ------------------------------------------------------------ frontend
\* The texts typed into the latitude and longitude fields.
LatitudeTexts == {"0", "91", "abc"}
LongitudeTexts == {"0", "150", "150abc", "181", "-181"}

NaN == [nan |-> TRUE, value |-> 0]
Number(value) == [nan |-> FALSE, value |-> value]

\* parseFloat on the texts above: the number the longest numeric prefix
\* denotes, NaN when there is none.
parseFloat(text) ==
    CASE text = "0" -> Number(0)
      [] text = "91" -> Number(91)
      [] text = "150" -> Number(150)
      [] text = "150abc" -> Number(150)
      [] text = "181" -> Number(181)
      [] text = "-181" -> Number(-181)
      [] OTHER -> NaN

isNaN(x) == x.nan

\* Store actions.
setStartLocation(st, location) ==
    [st EXCEPT !.startLocation = location,
               !.startLocationName = LocationName(location)]

setTargetLocation(st, location) ==
    [st EXCEPT !.targetLocation = location,
               !.targetLocationName = LocationName(location)]

swapLocations(st) ==
    [st EXCEPT !.startLocation = st.targetLocation,
               !.targetLocation = st.startLocation,
               !.startLocationName = st.targetLocationName,
               !.targetLocationName = st.startLocationName,
               !.routes = <<>>,
               !.selectedRouteId = NoRoute.id]

\* Faulty variant: the selection is kept when the list changes.
setRoutes_keeping_selection(st, routes) ==
    [st EXCEPT !.routes = routes, !.error = ""]

setRoutes(st, routes) ==
    [st EXCEPT !.routes = routes,
               !.selectedRouteId = IF Len(routes) > 0 THEN routes[1].id
                                   ELSE NoRoute.id,
               !.error = ""]

setSelectedRouteId(st, selectedRouteId) ==
    [st EXCEPT !.selectedRouteId = selectedRouteId]

setSelectedWaypoint(st, waypoint) == [st EXCEPT !.selectedWaypoint = waypoint]

setSidebarOpen(st, open) == [st EXCEPT !.sidebarOpen = open]

setPrioritizeMajor(st, prioritize) ==
    [st EXCEPT !.prioritizeMajor = prioritize,
               !.planetsOnly = IF prioritize THEN FALSE ELSE st.planetsOnly]

\* Faulty variant: the switch of one mode leaves the other mode alone.
setPlanetsOnly_independent(st, planetsOnly) ==
    [st EXCEPT !.planetsOnly = planetsOnly]

setPlanetsOnly(st, planetsOnly) ==
    [st EXCEPT !.planetsOnly = planetsOnly,
               !.prioritizeMajor = IF planetsOnly THEN FALSE
                                   ELSE st.prioritizeMajor]

setMaxRoutes(st, maxRoutes) == [st EXCEPT !.maxRoutes = maxRoutes]

setIsSimulating(st, isSimulating) == [st EXCEPT !.isSimulating = isSimulating]

setSimulationProgress(st, simulationProgress) ==
    [st EXCEPT !.simulationProgress = simulationProgress]

setSimulationSpeed(st, simulationSpeed) ==
    [st EXCEPT !.simulationSpeed = simulationSpeed]

setCurrentSimulationPosition(st, currentSimulationPosition) ==
    [st EXCEPT !.currentSimulationPosition = currentSimulationPosition]

resetSimulation(st) ==
    [st EXCEPT !.isSimulating = FALSE,
               !.simulationProgress = 0,
               !.currentSimulationPosition = NullPosition]

\* reset: everything but sidebarOpen goes back to its initial value.
reset(st) == [InitialStore EXCEPT !.sidebarOpen = st.sidebarOpen]

setIsCalculating(st, isCalculating) == [st EXCEPT !.isCalculating = isCalculating]

setError(st, error) == [st EXCEPT !.error = error, !.isCalculating = FALSE]

\* Faulty variant: clearing the route also ends the calculation.
clearRoute_resetting(st) ==
    [resetSimulation(st) EXCEPT !.routes = <<>>,
                                !.selectedRouteId = NoRoute.id,
                                !.selectedWaypoint = NullWaypoint,
                                !.error = "",
                                !.isCalculating = FALSE]

clearRoute(st) ==
    [resetSimulation(st) EXCEPT !.routes = <<>>,
                                !.selectedRouteId = NoRoute.id,
                                !.selectedWaypoint = NullWaypoint,
                                !.error = ""]

\* handleCoordinateInput of the LocationInput: the entry is taken when both
\* texts parse and the numbers are in range, and ignored otherwise.
handleCoordinateInput(st, type, latStr, lonStr) ==
    LET lat == parseFloat(latStr)
        lon == parseFloat(lonStr)
    IN  IF /\ ~isNaN(lat) /\ ~isNaN(lon)
           /\ lat.value >= -90 /\ lat.value <= 90
           /\ lon.value >= -180 /\ lon.value <= 180
        THEN IF type = "start"
             THEN setStartLocation(st, LatLon(lat.value, lon.value))
             ELSE setTargetLocation(st, LatLon(lat.value, lon.value))
        ELSE st

\* handleMapClick: the clicked position goes to the store as the map
\* delivers it.
handleMapClick(st, clickMode, position) ==
    IF clickMode = "start" THEN setStartLocation(st, position)
    ELSE IF clickMode = "target" THEN setTargetLocation(st, position)
    ELSE st

\* The positions a click on the map delivers: e.latlng of a map that shows
\* copies of the world side by side, so the longitude is not confined.
ClickLongitudes == {150, 181}
ClickPositions == { LatLon(0, lon) : lon \in ClickLongitudes }

\* const canCalculate = !isCalculating; the button has disabled={!canCalculate}.
canCalculate(st) == ~st.isCalculating

SelectBothMessage == "Please select both start and target locations"
NotAFunctionMessage == "setRoute is not a function"

\* The request navigationApi.calculateRoute posts, awaiting its response.
\* stale records that the locations were swapped while it was in flight.
HttpExchange(start, target) ==
    [start |-> start, target |-> target, status |-> "sent",
     detail |-> "", routes |-> <<>>, stale |-> FALSE]

\* Faulty variant: the routes on display are left alone.
handleCalculateRoute_without_clear(st, ap) ==
    IF st.startLocation.null \/ st.targetLocation.null
    THEN [store |-> st, app |-> [ap EXCEPT !.error = SelectBothMessage]]
    ELSE [store |-> setIsCalculating(st, TRUE),
          app |-> [ap EXCEPT !.http = Append(@, HttpExchange(st.startLocation,
                                                             st.targetLocation))]]

\* handleCalculateRoute up to its await.
handleCalculateRoute(st, ap) ==
    IF st.startLocation.null \/ st.targetLocation.null
    THEN [store |-> st, app |-> [ap EXCEPT !.error = SelectBothMessage]]
    ELSE [store |-> clearRoute(setIsCalculating(st, TRUE)),
          app |-> [ap EXCEPT !.http = Append(@, HttpExchange(st.startLocation,
                                                             st.targetLocation))]]

\* Faulty variant: the response goes to setRoutes.
settle_storing(st, ap, exchange) ==
    IF exchange.status = "error"
    THEN [store |-> setIsCalculating(setError(st, exchange.detail), FALSE),
          app |-> [ap EXCEPT !.error = exchange.detail]]
    ELSE [store |-> setIsCalculating(setRoutes(st, exchange.routes), FALSE),
          app |-> ap]

\* handleCalculateRoute from its await on: the try block calls setRoute,
\* which the store does not have (it has setRoutes), so a response that
\* arrives ends in the catch block like a rejection does; then `finally`.
settle(st, ap, exchange) ==
    LET errorMessage == IF exchange.status = "error" THEN exchange.detail
                        ELSE NotAFunctionMessage
    IN  [store |-> setIsCalculating(setError(st, errorMessage), FALSE),
         app |-> [ap EXCEPT !.error = errorMessage]]

\* ------------------------------------------------------------- API layer
InvalidInputMessage == "InvalidInput"

\* Faulty variant: the coordinates are not validated.
valid_position_unchecked(position) == TRUE

\* lat/lon in range.
valid_position(position) ==
    /\ position.latitude >= -90 /\ position.latitude <= 90
    /\ position.longitude >= -180 /\ position.longitude <= 180

valid_request(exchange) ==
    valid_position(exchange.start) /\ valid_position(exchange.target)

\* The cell of the great circle under a position of latitude 0.
cell_of(position) ==
    (((position.longitude + FullCircle) % FullCircle) * RingSize) \div FullCircle

\* The request as the Route Set Builder gets it: max_routes defaults to 1.
build_request(exchange, step_size_km, max_iterations) ==
    [NoRequest EXCEPT !.phase = "BUILDING", !.max_routes = 1, !.variant = 1,
                      !.start = cell_of(exchange.start),
                      !.target = cell_of(exchange.target),
                      !.step_size_km = step_size_km,
                      !.max_iterations = max_iterations]

\* ------------------------------------------------- useRouteSimulation
\* What destructuring gives for a property the store does not have.
undefined == [undefined |-> TRUE]

\* const { route, ... } = useNavigationStore(): the property `route` of the
\* store's state.
route(st) == IF "route" \in DOMAIN st THEN st.route ELSE undefined

\* The shorter way round from longitude lon1 to lon2, in degrees, signed.
signed_arc(lon1, lon2) ==
    ((lon2 - lon1 + 3 * (FullCircle \div 2)) % FullCircle) - (FullCircle \div 2)

\* p1.distanceTo(p2) for two points of the model's great circle, in degrees
\* of arc.
distanceTo(p1, p2) == abs(signed_arc(p1.longitude, p2.longitude))

\* The longitude atan2 gives: in (-180, 180].
atan2_longitude(lon) ==
    LET m == ((lon % FullCircle) + FullCircle) % FullCircle
    IN  IF m > FullCircle \div 2 THEN m - FullCircle ELSE m

\* interpolateGeodesic, the fraction given as <<numerator, denominator>>.
interpolateGeodesic(p1, p2, fraction) ==
    IF fraction[1] <= 0 THEN p1
    ELSE IF fraction[1] >= fraction[2] THEN p2
    ELSE IF distanceTo(p1, p2) = 0 THEN p1
    ELSE LatLon(p1.latitude,
                atan2_longitude(p1.longitude
                    + (signed_arc(p1.longitude, p2.longitude) * fraction[1])
                      \div fraction[2]))

\* The distances of consecutive points.
segment_distances(points) ==
    [i \in 1 .. (Len(points) - 1) |-> distanceTo(points[i], points[i + 1])]

RECURSIVE sum_of(_)
sum_of(distances) ==
    IF distances = <<>> THEN 0 ELSE Head(distances) + sum_of(Tail(distances))

\* The points of the path: start, the waypoint positions in order, target.
path_points(startLocation, waypoints, targetLocation) ==
    <<startLocation>> \o [i \in DOMAIN waypoints |-> waypoints[i].position]
                      \o <<targetLocation>>

with_path(sm, points) ==
    [sm EXCEPT !.routePoints = points,
               !.segmentDistances = segment_distances(points),
               !.totalDistance = sum_of(segment_distances(points))]

\* The first effect: routePoints, segmentDistances and totalDistance.
path_effect(st, sm) ==
    IF route(st) = undefined \/ st.startLocation.null \/ st.targetLocation.null
    THEN [sm EXCEPT !.routePoints = <<>>, !.segmentDistances = <<>>,
                    !.totalDistance = 0]
    ELSE with_path(sm, path_points(st.startLocation, route(st).waypoints,
                                   st.targetLocation))

\* requestAnimationFrame(animate), animate closing over the progress and
\* the speed of the render that made it.
frame_request(st) ==
    [pending |-> TRUE, simulationProgress |-> st.simulationProgress,
     simulationSpeed |-> st.simulationSpeed]

\* Faulty variant: a running simulation requests no frame.
animation_effect_without_request(st, sm) ==
    IF st.isSimulating
    THEN [sm EXCEPT !.lastTimeRef = "undefined", !.requestRef = NoFrame]
    ELSE [sm EXCEPT !.requestRef = NoFrame]

\* The second effect, its cleanup first: the requested frame is cancelled;
\* a running simulation forgets the time of the last frame and requests one.
animation_effect(st, sm) ==
    IF st.isSimulating
    THEN [sm EXCEPT !.lastTimeRef = "undefined", !.requestRef = frame_request(st)]
    ELSE [sm EXCEPT !.requestRef = NoFrame]

\* Faulty variant of the loop below: a segment is taken only when it
\* reaches beyond the distance looked for.
RECURSIVE segment_loop_strict(_, _, _, _, _)
segment_loop_strict(segmentDistances, targetDist, i, currentDist, segmentIndex) ==
    IF i > Len(segmentDistances)
    THEN [segmentIndex |-> segmentIndex, currentDist |-> currentDist]
    ELSE IF (currentDist + segmentDistances[i]) * ProgressUnits > targetDist
         THEN [segmentIndex |-> i, currentDist |-> currentDist]
         ELSE segment_loop_strict(segmentDistances, targetDist, i + 1,
                                  currentDist + segmentDistances[i], i)

\* The loop over the segments; targetDist is simulationProgress times
\* totalDistance, so it is in units of 1 / ProgressUnits of a distance.
RECURSIVE segment_loop(_, _, _, _, _)
segment_loop(segmentDistances, targetDist, i, currentDist, segmentIndex) ==
    IF i > Len(segmentDistances)
    THEN [segmentIndex |-> segmentIndex, currentDist |-> currentDist]
    ELSE IF (currentDist + segmentDistances[i]) * ProgressUnits >= targetDist
         THEN [segmentIndex |-> i, currentDist |-> currentDist]
         ELSE segment_loop(segmentDistances, targetDist, i + 1,
                           currentDist + segmentDistances[i], i)

\* The third effect: the position at simulationProgress along the path.
position_effect(st, sm) ==
    IF sm.totalDistance = 0 \/ Len(sm.routePoints) < 2
    THEN [store |-> st, sim |-> sm]
    ELSE LET targetDist == st.simulationProgress * sm.totalDistance
             found == segment_loop(sm.segmentDistances, targetDist, 1, 0, 1)
             p1 == sm.routePoints[found.segmentIndex]
             p2 == sm.routePoints[found.segmentIndex + 1]
             segmentProgress ==
                 IF sm.segmentDistances[found.segmentIndex] = 0
                 THEN <<0, 1>>
                 ELSE <<targetDist - found.currentDist * ProgressUnits,
                        sm.segmentDistances[found.segmentIndex] * ProgressUnits>>
         IN  [store |-> setCurrentSimulationPosition(st,
                            interpolateGeodesic(p1, p2, segmentProgress)),
              sim |-> [sm EXCEPT !.segmentIndex = found.segmentIndex,
                                 !.segmentProgress = segmentProgress]]

\* The render after the store went from old to new: the effects whose
\* dependencies changed, in the order of the hook.
effects(old, new, sm) ==
    LET sm1 == IF \/ route(old) # route(new)
                  \/ old.startLocation # new.startLocation
                  \/ old.targetLocation # new.targetLocation
               THEN path_effect(new, sm) ELSE sm
        sm2 == IF \/ old.isSimulating # new.isSimulating
                  \/ old.simulationProgress # new.simulationProgress
                  \/ old.simulationSpeed # new.simulationSpeed
               THEN animation_effect(new, sm1) ELSE sm1
    IN  IF old.simulationProgress # new.simulationProgress
        THEN position_effect(new, sm2)
        ELSE [store |-> new, sim |-> sm2]

\* Faulty variant: progress is not capped at 1.
animate_uncapped(st, sm, deltaTime) ==
    IF sm.lastTimeRef # "undefined"
    THEN setSimulationProgress(st, sm.requestRef.simulationProgress
                                   + sm.requestRef.simulationSpeed * deltaTime)
    ELSE st

\* animate: one unit of deltaTime is the time in which the smallest speed
\* advances simulationProgress by 1 / ProgressUnits.
animate(st, sm, deltaTime) ==
    IF sm.lastTimeRef # "undefined"
    THEN LET speedFactor == sm.requestRef.simulationSpeed * deltaTime
             newProgress == sm.requestRef.simulationProgress + speedFactor
         IN  IF newProgress >= ProgressUnits
             THEN setSimulationProgress(setIsSimulating(st, FALSE), ProgressUnits)
             ELSE setSimulationProgress(st, newProgress)
    ELSE st

\* What SimulationControls renders: nothing without a route (`if (!route)
\* return null`), the controls otherwise. RouteInfo mounts it when there is
\* a selected route.
SimulationControls(st) ==
    IF st.routes = <<>> THEN "not mounted"
    ELSE IF route(st) = undefined THEN "null"
    ELSE "controls"

\* handleTogglePlay of the SimulationControls.
handleTogglePlay(st) ==
    LET rewound == IF st.simulationProgress >= ProgressUnits
                   THEN setSimulationProgress(st, 0) ELSE st
    IN  setIsSimulating(rewound, ~st.isSimulating)

handleSliderChange(st, newValue) == setSimulationProgress(st, newValue)

\* ------------------------------------------------------- persistence
\* The numbers the texts below are read back as.
JsonNumbers == (0 - FullCircle) .. FullCircle

\* JSON.stringify and JSON.parse of a number.
stringify_number(n) == ToString(n)
parse_number(text) == CHOOSE n \in JsonNumbers : ToString(n) = text

\* JSON.stringify and JSON.parse of a Position or null.
stringify_position(position) ==
    IF position.null THEN [null |-> TRUE]
    ELSE [null |-> FALSE,
          latitude |-> stringify_number(position.latitude),
          longitude |-> stringify_number(position.longitude)]

parse_position(json) ==
    IF json.null THEN NullPosition
    ELSE LatLon(parse_number(json.latitude), parse_number(json.longitude))

stringify_waypoint(waypoint) ==
    [waypoint EXCEPT !.position = stringify_position(@),
                     !.timestamp = stringify_number(@)]

parse_waypoint(json) ==
    [json EXCEPT !.position = parse_position(@),
                 !.timestamp = parse_number(@)]

stringify_route(r) ==
    [r EXCEPT !.id = stringify_number(@),
              !.waypoints = [i \in DOMAIN @ |-> stringify_waypoint(@[i])],
              !.total_distance = stringify_number(@),
              !.direct_distance = stringify_number(@),
              !.iterations = stringify_number(@)]

parse_route(json) ==
    [json EXCEPT !.id = parse_number(@),
                 !.waypoints = [i \in DOMAIN @ |-> parse_waypoint(@[i])],
                 !.total_distance = parse_number(@),
                 !.direct_distance = parse_number(@),
                 !.iterations = parse_number(@)]

\* Faulty variant: the calculation flag is persisted too.
partialize_with_isCalculating(st) ==
    [startLocation |-> st.startLocation,
     targetLocation |-> st.targetLocation,
     startLocationName |-> st.startLocationName,
     targetLocationName |-> st.targetLocationName,
     routes |-> st.routes,
     selectedRouteId |-> st.selectedRouteId,
     mapCenter |-> st.mapCenter,
     mapZoom |-> st.mapZoom,
     prioritizeMajor |-> st.prioritizeMajor,
     planetsOnly |-> st.planetsOnly,
     maxRoutes |-> st.maxRoutes,
     isCalculating |-> st.isCalculating]

\* partialize: the part of the state that is persisted.
partialize(st) ==
    [startLocation |-> st.startLocation,
     targetLocation |-> st.targetLocation,
     startLocationName |-> st.startLocationName,
     targetLocationName |-> st.targetLocationName,
     routes |-> st.routes,
     selectedRouteId |-> st.selectedRouteId,
     mapCenter |-> st.mapCenter,
     mapZoom |-> st.mapZoom,
     prioritizeMajor |-> st.prioritizeMajor,
     planetsOnly |-> st.planetsOnly,
     maxRoutes |-> st.maxRoutes]

\* The text under 'navigation-storage': JSON.stringify of the persisted part.
\* Numbers become text, null stays null, strings and booleans stay.
stringify(part) ==
    [part EXCEPT !.startLocation = stringify_position(@),
                 !.targetLocation = stringify_position(@),
                 !.startLocationName = [i \in DOMAIN @ |-> stringify_number(@[i])],
                 !.targetLocationName = [i \in DOMAIN @ |-> stringify_number(@[i])],
                 !.routes = [i \in DOMAIN @ |-> stringify_route(@[i])],
                 !.selectedRouteId = stringify_number(@),
                 !.mapCenter = stringify_position(@),
                 !.mapZoom = stringify_number(@),
                 !.maxRoutes = stringify_number(@)]

parse(json) ==
    [json EXCEPT !.startLocation = parse_position(@),
                 !.targetLocation = parse_position(@),
                 !.startLocationName = [i \in DOMAIN @ |-> parse_number(@[i])],
                 !.targetLocationName = [i \in DOMAIN @ |-> parse_number(@[i])],
                 !.routes = [i \in DOMAIN @ |-> parse_route(@[i])],
                 !.selectedRouteId = parse_number(@),
                 !.mapCenter = parse_position(@),
                 !.mapZoom = parse_number(@),
                 !.maxRoutes = parse_number(@)]

\* What the persist middleware keeps in localStorage for a state.
setItem(st) == stringify(partialize(st))

\* Rehydration: the persisted part is merged over the initial state.
rehydrate(initial, item) ==
    LET persisted == parse(item)
    IN  [key \in DOMAIN initial |->
            IF key \in DOMAIN persisted THEN persisted[key] ELSE initial[key]]

\* A route as the store holds it.
StoredRoute(k) ==
    [id |-> k,
     label |-> <<"Route", k>>,
     waypoints |-> <<[position |-> LatLon(0, 150), reference_object |-> "Sirius",
                      reason |-> "target_reached", timestamp |-> 0],
                     [position |-> LatLon(0, 150), reference_object |-> NoneName,
                      reason |-> "target_reached", timestamp |-> 0]>>,
     total_distance |-> 150,
     direct_distance |-> 150,
     iterations |-> 1,
     used_objects |-> {"Sirius"}]

\* The route lists a response can hold.
RouteLists == {<<>>, <<StoredRoute(1)>>, <<StoredRoute(1), StoredRoute(2)>>}

\* What localStorage holds when the page loads: nothing, or what an earlier
\* visit left there.
StoredItems ==
    { setItem(InitialStore),
      setItem(setRoutes(setTargetLocation(setStartLocation(InitialStore,
                                                           LatLon(0, 0)),
                                          LatLon(0, 150)),
                        <<StoredRoute(1), StoredRoute(2)>>)) }

\* The requests a browser keeps open at once.
MaxInflight == 2

Without(seq, k) == [i \in 1 .. (Len(seq) - 1) |-> IF i < k THEN seq[i] ELSE seq[i + 1]]

CoordinateInput ==
    \E type \in {"start", "target"}, latStr \in LatitudeTexts, lonStr \in LongitudeTexts :
        /\ LET next == handleCoordinateInput(store, type, latStr, lonStr)
           IN  /\ store' = effects(store, next, sim).store
               /\ sim' = effects(store, next, sim).sim
        /\ UNCHANGED <<catalog, now, run, sel, rset, app>>

\* onMapClickModeChange(clickMode === 'start' ? null : 'start'), and the same
\* for the target: the button arms its mode or disarms it.
SetClickMode ==
    \E mode \in {"start", "target"} :
        /\ app' = [app EXCEPT !.clickMode = IF @ = mode THEN "none" ELSE mode]
        /\ UNCHANGED <<catalog, now, run, sel, rset, store, sim>>

MapClick ==
    \E position \in ClickPositions :
        /\ app.clickMode # "none"
        /\ LET next == handleMapClick(store, app.clickMode, position)
           IN  /\ store' = effects(store, next, sim).store
               /\ sim' = effects(store, next, sim).sim
        /\ app' = [app EXCEPT !.clickMode = "none"]
        /\ UNCHANGED <<catalog, now, run, sel, rset>>

CalculateClick ==
    /\ canCalculate(store)
    /\ Len(app.http) < MaxInflight
    /\ LET next == handleCalculateRoute(store, app).store
       IN  /\ store' = effects(store, next, sim).store
           /\ sim' = effects(store, next, sim).sim
    /\ app' = handleCalculateRoute(store, app).app
    /\ UNCHANGED <<catalog, now, run, sel, rset>>

\* The API layer rejects a request with a coordinate out of range.
ApiReject ==
    \E k \in DOMAIN app.http :
        /\ app.http[k].status = "sent"
        /\ ~valid_request(app.http[k])
        /\ app' = [app EXCEPT !.http[k].status = "error",
                              !.http[k].detail = InvalidInputMessage]
        /\ UNCHANGED <<catalog, now, run, sel, rset, store, sim>>

\* The defaults of step_size_km and max_iterations, which the request of
\* the frontend leaves out.
DefaultStepSize == 3
DefaultMaxIterations == 2

\* The API layer hands a request to the Route Set Builder.
ApiAccept ==
    \E k \in DOMAIN app.http :
        /\ app.http[k].status = "sent"
        /\ valid_request(app.http[k])
        /\ rset.phase = "IDLE"
        /\ rset' = build_request(app.http[k], DefaultStepSize, DefaultMaxIterations)
        /\ app' = [app EXCEPT !.http[k].status = "computing"]
        /\ UNCHANGED <<catalog, now, run, sel, store, sim>>

\* The API layer answers with the routes or with the error of the builder.
ApiReply ==
    \E k \in DOMAIN app.http :
        /\ app.http[k].status = "computing"
        /\ rset.phase \in {"RETURNED", "FAILED"}
        /\ app' = [app EXCEPT !.http[k].status =
                                  IF rset.phase = "RETURNED" THEN "done" ELSE "error",
                              !.http[k].detail = rset.error,
                              !.http[k].routes = rset.routes]
        /\ rset' = NoRequest
        /\ UNCHANGED <<catalog, now, run, sel, store, sim>>

\* The response reaches the browser and handleCalculateRoute resumes.
Settle ==
    \E k \in DOMAIN app.http :
        /\ app.http[k].status \in {"done", "error"}
        /\ LET next == settle(store, app, app.http[k]).store
           IN  /\ store' = effects(store, next, sim).store
               /\ sim' = effects(store, next, sim).sim
        /\ app' = [settle(store, app, app.http[k]).app
                      EXCEPT !.http = Without(app.http, k)]
        /\ UNCHANGED <<catalog, now, run, sel, rset>>

\* onSwapLocations: useNavigationStore.getState().swapLocations().
SwapLocations ==
    /\ LET next == swapLocations(store)
       IN  /\ store' = effects(store, next, sim).store
           /\ sim' = [effects(store, next, sim).sim EXCEPT !.reloaded = FALSE]
    /\ app' = [app EXCEPT !.http = [k \in DOMAIN @ |-> [@[k] EXCEPT !.stale = TRUE]]]
    /\ UNCHANGED <<catalog, now, run, sel, rset>>

InitApp ==
    /\ now = 0
    /\ \E item \in StoredItems : store = rehydrate(InitialStore, item)
    /\ app = InitialApp
    /\ sim = InitialSim
    /\ sel = NoSelection
    /\ rset = NoRequest
    /\ \E c \in SpreadCatalogs : catalog = [p \in Procs |-> c]
    /\ run = [r \in Runs |-> Idle]

NextApp ==
    \/ (\E r \in Runs : RunStep(r))
    \/ StartVariant \/ CollectVariant \/ Respond
    \/ CoordinateInput \/ SetClickMode \/ MapClick \/ SwapLocations
    \/ CalculateClick
    \/ ApiReject \/ ApiAccept \/ ApiReply \/ Settle

SpecApp == InitApp /\ [][NextApp]_vars

\* ------------------------------------------------- the store alone
\* The store under its actions, each called with arguments its callers
\* give, every call followed by the render it causes.
StoreLocations == {NullPosition, LatLon(0, 0), LatLon(0, 150)}
StoreMaxRoutes == {1, 2}
ErrorChoices == {"", InvalidInputMessage}

StoreAction(next) ==
    /\ store' = effects(store, next, sim).store
    /\ sim' = [effects(store, next, sim).sim EXCEPT !.reloaded = FALSE]
    /\ UNCHANGED <<catalog, now, run, sel, rset, app>>

SetStartLocation == \E location \in StoreLocations : StoreAction(setStartLocation(store, location))

SetTargetLocation == \E location \in StoreLocations \ {LatLon(0, 0)} : StoreAction(setTargetLocation(store, location))

SetRoutes == \E routes \in RouteLists : StoreAction(setRoutes(store, routes))

\* A click on the chip of a route; the chips are there for two routes or more.
SelectRouteChip ==
    \E i \in DOMAIN store.routes :
        /\ Len(store.routes) > 1
        /\ StoreAction(setSelectedRouteId(store, store.routes[i].id))

SetIsCalculating == \E isCalculating \in BOOLEAN : StoreAction(setIsCalculating(store, isCalculating))

SetError == \E error \in ErrorChoices : StoreAction(setError(store, error))

\* A click on the marker of a waypoint of the selected route.
SelectWaypoint ==
    /\ store.routes # <<>>
    /\ StoreAction(setSelectedWaypoint(store,
           selectedRoute(store.routes, store.selectedRouteId).waypoints[1]))

ToggleSidebar == StoreAction(setSidebarOpen(store, ~store.sidebarOpen))

SetPrioritizeMajor == \E prioritize \in BOOLEAN : StoreAction(setPrioritizeMajor(store, prioritize))

SetPlanetsOnly == \E planetsOnly \in BOOLEAN : StoreAction(setPlanetsOnly(store, planetsOnly))

SetMaxRoutes == \E maxRoutes \in StoreMaxRoutes : StoreAction(setMaxRoutes(store, maxRoutes))

SetIsSimulating == \E isSimulating \in BOOLEAN : StoreAction(setIsSimulating(store, isSimulating))

ClearRoute == StoreAction(clearRoute(store))

Reset == StoreAction(reset(store))

\* The hook's refs after the component has mounted on a state.
mounted(st) ==
    animation_effect(st, path_effect(st, InitialSim))

\* A page reload: the store is created again and rehydrated from what the
\* persist middleware kept, the components mount again, and what the old
\* page was waiting for is gone.
Reload ==
    /\ store' = rehydrate(InitialStore, setItem(store))
    /\ sim' = [mounted(store') EXCEPT !.reloaded = TRUE]
    /\ app' = InitialApp
    /\ UNCHANGED <<catalog, now, run, sel, rset>>

InitStore ==
    /\ now = 0
    /\ store = InitialStore
    /\ app = InitialApp
    /\ sim = InitialSim
    /\ sel = NoSelection
    /\ rset = NoRequest
    /\ catalog = [p \in Procs |-> CHOOSE c \in SpreadCatalogs : TRUE]
    /\ run = [r \in Runs |-> Idle]

NextStore ==
    \/ SetStartLocation \/ SetTargetLocation \/ SwapLocations
    \/ SetRoutes \/ SelectRouteChip \/ SelectWaypoint
    \/ SetIsCalculating \/ SetError \/ ToggleSidebar
    \/ SetPrioritizeMajor \/ SetPlanetsOnly \/ SetMaxRoutes
    \/ SetIsSimulating \/ ClearRoute \/ Reset \/ Reload

SpecStore == InitStore /\ [][NextStore]_vars

\* ----------------------------------------------------- the simulation
\* The speeds the controls offer: 0.5x, 1x, 2x, 5x and 10x.
SpeedChoices ==
    {HalfSpeedsPerUnit \div 2, HalfSpeedsPerUnit, 2 * HalfSpeedsPerUnit,
     5 * HalfSpeedsPerUnit, 10 * HalfSpeedsPerUnit}

\* The times between two animation frames, in the unit of animate.
MaxDeltaTime == 3
DeltaTimes == 0 .. MaxDeltaTime

TogglePlay == StoreAction(handleTogglePlay(store))

SliderChange == \E newValue \in 0 .. ProgressUnits : StoreAction(handleSliderChange(store, newValue))

ResetSimulation == StoreAction(resetSimulation(store))

SetSimulationSpeed == \E speed \in SpeedChoices : StoreAction(setSimulationSpeed(store, speed))

\* The browser runs the requested frame: animate, which notes the time and
\* requests itself again, and then the render its store updates cause.
Frame(deltaTime) ==
    /\ sim.requestRef.pending
    /\ LET next == animate(store, sim, deltaTime)
           noted == [sim EXCEPT !.lastTimeRef = "set"]
       IN  /\ store' = effects(store, next, noted).store
           /\ sim' = effects(store, next, noted).sim
    /\ UNCHANGED <<catalog, now, run, sel, rset, app>>

AnimationFrame == \E deltaTime \in DeltaTimes : Frame(deltaTime)

InitSim == InitStore

NextSim ==
    \/ TogglePlay \/ SliderChange \/ ResetSimulation \/ SetSimulationSpeed
    \/ AnimationFrame

SpecSim == InitSim /\ [][NextSim]_vars

\* A simulation left to itself: play has just been pressed at some progress
\* and speed, and from then on frames arrive, each after some time.
InitRunning ==
    /\ now = 0
    /\ app = InitialApp
    /\ sel = NoSelection
    /\ rset = NoRequest
    /\ catalog = [p \in Procs |-> CHOOSE c \in SpreadCatalogs : TRUE]
    /\ run = [r \in Runs |-> Idle]
    /\ \E progress \in 0 .. ProgressUnits, speed \in SpeedChoices :
          LET paused == setSimulationSpeed(setSimulationProgress(InitialStore, progress), speed)
              played == handleTogglePlay(paused)
          IN  /\ store = effects(paused, played, InitialSim).store
              /\ sim = effects(paused, played, InitialSim).sim

ElapsedFrame == \E deltaTime \in DeltaTimes \ {0} : Frame(deltaTime)

FairSim == InitRunning /\ [][ElapsedFrame]_vars /\ WF_vars(ElapsedFrame)

\* ------------------------------------------------ the position update
\* The position update on paths of its own: the points of a path lie on the
\* model's great circle.
PathLongitudes == {0 - 150, 0, 60, 150}
MaxPathPoints == 4
Paths ==
    UNION { [1 .. n -> {LatLon(0, lon) : lon \in PathLongitudes}] :
            n \in 2 .. MaxPathPoints }

InitPosition ==
    /\ now = 0
    /\ app = InitialApp
    /\ sel = NoSelection
    /\ rset = NoRequest
    /\ catalog = [p \in Procs |-> CHOOSE c \in SpreadCatalogs : TRUE]
    /\ run = [r \in Runs |-> Idle]
    /\ store = InitialStore
    /\ \E points \in Paths : sim = with_path(InitialSim, points)

SpecPosition == InitPosition /\ [][SliderChange]_vars

\* ================================================================ claims
Active == {r \in Runs : run[r].phase # "IDLE"}
Ended(r) == run[r].phase \in {"DONE", "FAILED"}
DistanceToTarget(r, position) ==
    haversine_distance(position, run[r].nav_state.target_position)

\* The waypoints of a run that a leg produced (reference_object not None).
LegWaypoints(r) ==
    SelectSeq(run[r].nav_state.waypoints,
              LAMBDA w : w.reference_object # NoneName)

\* C1: within one run no celestial object is used twice: any two waypoints
\* i < j that both have a reference object name different objects.
C1_NoObjectUsedTwice ==
    \A r \in Active :
        LET wps == run[r].nav_state.waypoints
        IN  \A i, j \in DOMAIN wps :
                (/\ i < j
                 /\ wps[i].reference_object # NoneName
                 /\ wps[j].reference_object # NoneName)
                => wps[i].reference_object # wps[j].reference_object

\* A second leg has been logged while the object of the first leg is above
\* the horizon again at the position the run has reached.
C1_Witness ==
    \E r \in Active :
        /\ Len(LegWaypoints(r)) >= 2
        /\ \E i \in DOMAIN catalog[run[r].proc] :
              LET obj == catalog[run[r].proc][i]
              IN  /\ obj.name = LegWaypoints(r)[1].reference_object
                  /\ obj.magnitude < VisibilityMagnitude
                  /\ calculate_horizontal_coordinates(
                         obj, run[r].nav_state.current_position, now).altitude > 0

\* The last leg waypoint of a run with no leg in progress: leg_start and
\* leg_visited are those of the leg that produced it.
HasLastLeg(r) ==
    /\ r \in Active
    /\ run[r].phase # "FOLLOWING"
    /\ LegWaypoints(r) # <<>>
LastLeg(r) == LegWaypoints(r)[Len(LegWaypoints(r))]

\* C4: a leg that stops with closest_approach returns a position the leg has
\* visited whose distance to the target is the minimum over all positions of
\* the leg, the starting position and the receding last position included;
\* so it is not farther from the target than the leg's start.
C4_ClosestApproachIsMinimum ==
    \A r \in Runs :
        (HasLastLeg(r) /\ LastLeg(r).reason = "closest_approach")
        => /\ LastLeg(r).position \in run[r].leg_visited
           /\ \A p \in run[r].leg_visited :
                 DistanceToTarget(r, LastLeg(r).position) <= DistanceToTarget(r, p)
           /\ DistanceToTarget(r, LastLeg(r).position)
                 <= DistanceToTarget(r, run[r].leg_start)

\* A closest_approach leg that made progress before it receded: the returned
\* position is neither the start nor the only other position of the leg.
C4_Witness ==
    \E r \in Runs :
        /\ HasLastLeg(r)
        /\ LastLeg(r).reason = "closest_approach"
        /\ LastLeg(r).position # run[r].leg_start
        /\ \E p \in run[r].leg_visited :
              DistanceToTarget(r, p) > DistanceToTarget(r, LastLeg(r).position)

\* C5: a run that ends DONE returns a non-empty waypoint list; its last entry
\* has reason target_reached, no reference object and a position within the
\* tolerance of the target; every other entry has a reference object.
C5_DoneEndsWithTargetReached ==
    \A r \in Active :
        run[r].phase = "DONE"
        => LET wps == run[r].returned
           IN  /\ run[r].outcome = "waypoints"
               /\ Len(wps) >= 1
               /\ wps[Len(wps)].reason = "target_reached"
               /\ wps[Len(wps)].reference_object = NoneName
               /\ positions_equal(wps[Len(wps)].position,
                                  run[r].nav_state.target_position)
               /\ \A i \in 1 .. (Len(wps) - 1) :
                     wps[i].reference_object # NoneName

\* A DONE run whose list holds leg waypoints before the final entry.
C5_Witness ==
    \E r \in Active :
        /\ run[r].phase = "DONE"
        /\ Len(run[r].returned) >= 3

\* C6: when iteration_count has reached max_iterations at the loop test, the
\* run ends FAILED with the iteration-cap error and the caller gets no
\* waypoints; a FAILED run never hands waypoints to the caller.
C6_MaxIterationsDiscardsWaypoints ==
    [][\A r \in Runs :
          (/\ Seeking(r)
           /\ run[r].nav_state.iteration_count >= run[r].max_iterations
           /\ run'[r] # run[r])
          => /\ run'[r].phase = "FAILED"
             /\ run'[r].outcome = "NavigationError"
             /\ run'[r].error = ExceededMessage
             /\ run'[r].returned = <<>>]_vars

\* A run that failed at the cap after it had logged waypoints.
C6_Witness ==
    \E r \in Active :
        /\ run[r].phase = "FAILED"
        /\ run[r].error = ExceededMessage
        /\ run[r].nav_state.iteration_count = run[r].max_iterations
        /\ Len(run[r].nav_state.waypoints) >= 2

\* C7: an iteration that starts away from the target and finds no candidate
\* (nothing visible, or every visible object already used) ends the run as a
\* failure with the no-visible-objects error: no object is selected, no leg
\* is run and no waypoint is appended.
C7_NoCandidateFails ==
    [][\A r \in Runs :
          (/\ Seeking(r)
           /\ loop_guard(run[r].nav_state, run[r].max_iterations)
           /\ ~positions_equal(run[r].nav_state.current_position,
                               run[r].nav_state.target_position)
           /\ VisibleNow(r) = <<>>
           /\ run'[r] # run[r])
          => /\ run'[r].phase = "FAILED"
             /\ run'[r].outcome = "NavigationError"
             /\ run'[r].error = NoVisibleMessage
             /\ run'[r].best_object = run[r].best_object
             /\ run'[r].nav_state = run[r].nav_state]_vars

\* A run that failed for lack of candidates although an object it has
\* already used is bright and above the horizon where it stands.
C7_Witness ==
    \E r \in Active :
        /\ run[r].phase = "FAILED"
        /\ run[r].error = NoVisibleMessage
        /\ \E i \in DOMAIN catalog[run[r].proc] :
              LET obj == catalog[run[r].proc][i]
              IN  /\ obj.name \in run[r].nav_state.used_objects
                  /\ obj.magnitude < VisibilityMagnitude
                  /\ calculate_horizontal_coordinates(
                         obj, run[r].nav_state.current_position, now).altitude > 0

\* C3: the Leg Follower terminates for every geometry: a leg in progress
\* always comes to an end, also when the distance to the target stays equal
\* from step to step and the object stays above the horizon.
C3_LegTerminates ==
    \A r \in Runs : Following(r) ~> ~Following(r)

\* C2: every run terminates in DONE or FAILED, after at most
\* min(max_iterations, number of catalog objects) legs.
C2_RunTerminates ==
    /\ \A r \in Runs : (r \in Active) ~> Ended(r)
    /\ [](\A r \in Active :
             Cardinality(run[r].nav_state.used_objects)
                 + (IF Following(r) THEN 1 ELSE 0)
             <= min(run[r].max_iterations, CatalogSize))

\* The invocation of run r executed alone, to its end, on a catalog of its
\* own as the provider delivers it, at instant t.
RECURSIVE AloneFrom(_, _, _, _)
AloneFrom(st, all_objects, t, fuel) ==
    IF st.phase \in {"DONE", "FAILED"} \/ fuel = 0 THEN st
    ELSE LET n == IF st.phase = "SEEKING_OBJECT"
                  THEN navigate_pass(st, all_objects, t)
                  ELSE navigate_leg(st, all_objects, t)
         IN  AloneFrom(n.run, n.catalog, t, fuel - 1)

AloneFuel == 40

Alone(r, t) ==
    AloneFrom([Invocation(run[r].proc, "SEEKING_OBJECT", run[r].start_position,
                          run[r].nav_state.target_position,
                          run[r].max_iterations, run[r].step_size_km)
                  EXCEPT !.planets_only = run[r].planets_only],
              [i \in DOMAIN catalog[run[r].proc] |->
                  LET obj == catalog[run[r].proc][i]
                  IN  CelestialObject(obj.name, obj.right_ascension,
                                      obj.magnitude, obj.object_type)],
              t, AloneFuel)

\* C8: runs executed in parallel over one shared catalog do not affect each
\* other: under every interleaving each run that ends has the outcome and
\* the waypoints it has when it is run alone.
C8_ParallelRunsIndependent ==
    \A r \in Active :
        (Ended(r) /\ Alone(r, now).phase \in {"DONE", "FAILED"})
        => /\ run[r].phase = Alone(r, now).phase
           /\ run[r].nav_state.waypoints = Alone(r, now).nav_state.waypoints

\* C9: the Route Planner is deterministic: two runs with identical start,
\* target, catalog snapshot and parameters that have ended have ended alike,
\* with identical waypoint sequences (positions, reference objects, reasons
\* and timestamps).
C9_Deterministic ==
    \A r1, r2 \in Active :
        (/\ Ended(r1) /\ Ended(r2)
         /\ run[r1].start_position = run[r2].start_position
         /\ run[r1].nav_state.target_position = run[r2].nav_state.target_position
         /\ run[r1].max_iterations = run[r2].max_iterations
         /\ run[r1].step_size_km = run[r2].step_size_km)
        => /\ run[r1].phase = run[r2].phase
           /\ run[r1].nav_state.waypoints = run[r2].nav_state.waypoints

\* Catalog names in ascending order.
SortedNames == <<"Canopus", "Sirius", "Vega">>
NameRank(name) == CHOOSE i \in DOMAIN SortedNames : SortedNames[i] = name

angular_separation(a, b) == min(abs(a - b), FullCircle - abs(a - b))

\* Candidate x comes before candidate y: smaller separation from the
\* bearing, then lower magnitude, then smaller name.
Precedes(tb, x, y) ==
    LET sx == angular_separation(x.azimuth, tb)
        sy == angular_separation(y.azimuth, tb)
    IN  \/ sx < sy
        \/ sx = sy /\ x.magnitude < y.magnitude
        \/ sx = sy /\ x.magnitude = y.magnitude
                   /\ NameRank(x.name) < NameRank(y.name)

\* C10: for every non-empty candidate list the selection returns the
\* candidate with the smallest angular separation from the target bearing,
\* among equals the one of lowest magnitude, among those the smallest name.
C10_SelectsBestWithTieBreaks ==
    (sel.called /\ sel.visible_objects # <<>>)
    => /\ \E i \in DOMAIN sel.visible_objects :
             sel.visible_objects[i] = sel.best_object
       /\ \A i \in DOMAIN sel.visible_objects :
             ~Precedes(sel.target_bearing, sel.visible_objects[i], sel.best_object)

\* C11: the Leg Follower stops with reason target_reached, returning the new
\* position, exactly when the step leaves the object above the horizon, does
\* not increase the distance to the target and ends within the tolerance of
\* the Route Planner's own reached-target check.
C11_LegStopsAtPlannerTolerance ==
    [][\A r \in Runs :
          (Following(r) /\ run'[r] # run[r])
          => LET f == LegNow(r)
                 wps == run'[r].nav_state.waypoints
                 stopped == /\ ~Following(r)'
                            /\ wps[Len(wps)].reason = "target_reached"
                 within == /\ f.hc.altitude > 0
                           /\ ~is_receding(DistanceToTarget(r, f.next_pos),
                                           run[r].leg.previous_distance)
                           /\ positions_equal(f.next_pos,
                                              run[r].nav_state.target_position)
             IN  /\ stopped <=> within
                 /\ stopped => wps[Len(wps)].position = f.next_pos]_vars

\* C12: a leg that stops with object_lost returns the leg position from which
\* the last step was made (the leg's start if that was the first step), a
\* position at which the object was found above the horizon; it is never the
\* position at which the altitude was found <= 0.
C12_ObjectLostReturnsPositionBefore ==
    \A r \in Runs :
        (HasLastLeg(r) /\ LastLeg(r).reason = "object_lost")
        => /\ LastLeg(r).position = run[r].last_step.from
           /\ run[r].last_step.from_altitude > 0
           /\ run[r].last_step.to_altitude <= 0
           /\ LastLeg(r).position # run[r].last_step.to
           /\ (run[r].leg_visited = {run[r].leg_start, run[r].last_step.to}
                  => LastLeg(r).position = run[r].leg_start)

\* An object_lost leg that had advanced before the object set.
C12_Witness ==
    \E r \in Runs :
        /\ HasLastLeg(r)
        /\ LastLeg(r).reason = "object_lost"
        /\ LastLeg(r).position # run[r].leg_start

\* The tolerance min(0.05 * initial direct distance, 5.0 km) in twentieths of
\* a cell: 0.05 of the distance in cells, capped at 50 cells.
DynamicToleranceTwentieths(r) ==
    min(haversine_distance(run[r].start_position,
                           run[r].nav_state.target_position), 20 * 50)

\* C13: the target tolerance of a run is min(0.05 * initial direct distance,
\* 5.0) km, fixed before the first iteration: in every iteration the planner
\* ends the run with the final target_reached waypoint exactly when the
\* current position is within that tolerance of the target.
C13_ToleranceIsDynamic ==
    [][\A r \in Runs :
          (/\ Seeking(r)
           /\ loop_guard(run[r].nav_state, run[r].max_iterations)
           /\ run'[r] # run[r])
          => (run'[r].phase = "DONE"
              <=> 20 * DistanceToTarget(r, run[r].nav_state.current_position)
                     <= DynamicToleranceTwentieths(r))]_vars

\* C14: for every RouteResult total_distance >= direct_distance, also when
\* the last waypoint lies within the tolerance of the target but short of it.
C14_TotalAtLeastDirect ==
    \A r \in Active :
        run[r].phase = "DONE"
        => RouteResult(r, run[r]).total_distance
              >= RouteResult(r, run[r]).direct_distance

\* C15: within a run used_objects only grows: no step removes a name, and
\* when an iteration is about to query the catalog the names of the objects
\* chosen in the earlier iterations are all in used_objects.
C15_UsedObjectsOnlyGrow ==
    /\ [][\A r \in Runs :
             run[r].phase # "IDLE"
             => run[r].nav_state.used_objects \subseteq run'[r].nav_state.used_objects]_vars
    /\ [](\A r \in Runs :
             Seeking(r)
             => \A i \in DOMAIN run[r].nav_state.waypoints :
                   LET w == run[r].nav_state.waypoints[i]
                   IN  w.reference_object # NoneName
                       => w.reference_object \in run[r].nav_state.used_objects)

\* A third iteration about to query the catalog with two names recorded.
C15_Witness ==
    \E r \in Runs :
        /\ Seeking(r)
        /\ loop_guard(run[r].nav_state, run[r].max_iterations)
        /\ ~positions_equal(run[r].nav_state.current_position,
                            run[r].nav_state.target_position)
        /\ Cardinality(run[r].nav_state.used_objects) >= 2

\* C16: iteration_count starts at 0, increases by exactly 1 in every loop
\* pass that runs a leg (when the leg has returned and its waypoint is
\* recorded) and in no other step, and never exceeds max_iterations.
C16_IterationCountCountsLegs ==
    /\ \A r \in Runs : run[r].nav_state.iteration_count = 0
    /\ [](\A r \in Runs :
             /\ run[r].nav_state.iteration_count >= 0
             /\ run[r].phase # "IDLE"
                => run[r].nav_state.iteration_count <= run[r].max_iterations)
    /\ [][\A r \in Runs :
             run'[r].nav_state.iteration_count =
                 IF Following(r) /\ ~Following(r)'
                 THEN run[r].nav_state.iteration_count + 1
                 ELSE run[r].nav_state.iteration_count]_vars

\* A run that has used up its iterations: the loop test is about to fail.
C16_Witness ==
    \E r \in Runs :
        /\ Seeking(r)
        /\ run[r].nav_state.iteration_count = run[r].max_iterations
        /\ ~positions_equal(run[r].nav_state.current_position,
                            run[r].nav_state.target_position)

\* The catalog entries of run r that qualify where the run stands: above the
\* horizon now, brighter than magnitude 6, not excluded, of a permitted type.
Qualifying(r) ==
    LET all_objects == catalog[run[r].proc]
    IN  { i \in DOMAIN all_objects :
            /\ calculate_horizontal_coordinates(
                   all_objects[i], run[r].nav_state.current_position, now).altitude > 0
            /\ all_objects[i].magnitude < 6
            /\ all_objects[i].name \notin run[r].nav_state.used_objects
            /\ (run[r].planets_only
                   => all_objects[i].object_type \in {"planet", "moon", "sun"}) }

\* C17: the Catalog Filter returns exactly the catalog objects that are above
\* the horizon at the observer's position and time, have magnitude < 6.0,
\* are not in excluded_names and have a type the active mode permits, each
\* once and with its horizon coordinates; when none qualifies the result is
\* the empty list.
C17_FilterReturnsExactlyQualifying ==
    \A r \in Active :
        LET all_objects == catalog[run[r].proc]
            vis == VisibleNow(r)
        IN  /\ Len(vis) = Cardinality(Qualifying(r))
            /\ \A i \in Qualifying(r) :
                  \E j \in DOMAIN vis :
                      /\ vis[j].name = all_objects[i].name
                      /\ vis[j].altitude = calculate_horizontal_coordinates(
                             all_objects[i], run[r].nav_state.current_position,
                             now).altitude
            /\ Qualifying(r) = {} => vis = <<>>

\* A query in "planets/moon only" mode has returned the empty list, after a
\* leg along a permitted object, although a bright, unused star stands above
\* the horizon: the run has failed for lack of candidates.
C17_Witness ==
    \E r \in Active :
        /\ run[r].phase = "FAILED"
        /\ run[r].error = NoVisibleMessage
        /\ run[r].planets_only
        /\ run[r].nav_state.iteration_count >= 1
        /\ \E i \in DOMAIN catalog[run[r].proc] :
              LET obj == catalog[run[r].proc][i]
              IN  /\ obj.object_type = "star"
                  /\ obj.magnitude < 6
                  /\ obj.name \notin run[r].nav_state.used_objects
                  /\ calculate_horizontal_coordinates(
                         obj, run[r].nav_state.current_position, now).altitude > 0

\* Some star of run r's catalog is bright, unused and above the horizon
\* where the run stands.
StarInView(r) ==
    \E i \in DOMAIN catalog[run[r].proc] :
        LET obj == catalog[run[r].proc][i]
        IN  /\ obj.object_type = "star"
            /\ obj.magnitude < 6
            /\ obj.name \notin run[r].nav_state.used_objects
            /\ calculate_horizontal_coordinates(
                   obj, run[r].nav_state.current_position, now).altitude > 0

\* C18: in "planets/moon only" mode every object a run selects, and so every
\* waypoint with a reference object, is a planet, the Moon or the Sun; when
\* only stars are in view the iteration selects nothing and the run fails for
\* lack of candidates.
C18_PlanetsOnlyNeverSelectsStar ==
    /\ [](\A r \in Active :
             run[r].planets_only
             => /\ run[r].best_object # NoneName
                   => ObjectType(run[r].best_object) \in {"planet", "moon", "sun"}
                /\ \A i \in DOMAIN run[r].nav_state.waypoints :
                      LET w == run[r].nav_state.waypoints[i]
                      IN  w.reference_object # NoneName
                          => ObjectType(w.reference_object)
                                \in {"planet", "moon", "sun"})
    /\ [][\A r \in Runs :
             (/\ Seeking(r)
              /\ run[r].planets_only
              /\ loop_guard(run[r].nav_state, run[r].max_iterations)
              /\ ~positions_equal(run[r].nav_state.current_position,
                                  run[r].nav_state.target_position)
              /\ \A i \in Qualifying(r) :
                    catalog[run[r].proc][i].object_type = "star"
              /\ run'[r] # run[r])
             => /\ run'[r].phase = "FAILED"
                /\ run'[r].error = NoVisibleMessage
                /\ run'[r].nav_state.waypoints = run[r].nav_state.waypoints]_vars

\* A run in "planets/moon only" mode that failed in its first iteration with
\* a star in view.
C18_Witness ==
    \E r \in Active :
        /\ run[r].planets_only
        /\ run[r].phase = "FAILED"
        /\ run[r].error = NoVisibleMessage
        /\ run[r].nav_state.iteration_count = 0
        /\ StarInView(r)

\* The number of variants of the request with the given outcome.
Outcomes(outcome) ==
    Cardinality({k \in DOMAIN rset.outcomes : rset.outcomes[k] = outcome})

\* C19: the Route Set Builder answers with between 1 and max_routes
\* RouteResults when at least one variant succeeds: the variants that failed
\* are left out, every returned route is a completed one, and the request
\* fails, with the underlying error and no routes, exactly when every variant
\* failed.
C19_FailedVariantsDropped ==
    rset.phase \in {"RETURNED", "FAILED"}
    => /\ Len(rset.outcomes) = rset.max_routes
       /\ rset.phase = "RETURNED" <=> Outcomes("DONE") >= 1
       /\ rset.phase = "FAILED" <=> Outcomes("FAILED") = rset.max_routes
       /\ rset.phase = "RETURNED"
          => /\ Len(rset.routes) >= 1
             /\ Len(rset.routes) <= rset.max_routes
             /\ Len(rset.routes) = Outcomes("DONE")
             /\ \A i \in DOMAIN rset.routes :
                   LET wps == rset.routes[i].waypoints
                   IN  /\ wps # <<>>
                       /\ wps[Len(wps)].reason = "target_reached"
                       /\ wps[Len(wps)].reference_object = NoneName
       /\ rset.phase = "FAILED"
          => /\ rset.routes = <<>>
             /\ rset.error \in {NoVisibleMessage, ExceededMessage}

\* A request answered with routes although one of its variants failed.
C19_Witness ==
    /\ rset.phase = "RETURNED"
    /\ Outcomes("FAILED") >= 1

C21_VariantFailureIsolated ==
    /\ [](rset.phase \in {"RETURNED", "FAILED"}
             => /\ Len(rset.outcomes) = rset.max_routes
                /\ \A k \in DOMAIN rset.outcomes :
                      rset.outcomes[k] \in {"DONE", "DUPLICATE", "FAILED"})
    /\ [][(Building /\ run[1].phase = "FAILED" /\ rset' # rset)
             => /\ rset'.phase = "BUILDING"
                /\ rset'.routes = rset.routes
                /\ rset'.variant = rset.variant + 1
                /\ Len(rset'.outcomes) = Len(rset.outcomes) + 1]_vars
    /\ [][(Building /\ run[1].phase = "IDLE" /\ run'[1].phase # "IDLE")
             => /\ run'[1].phase = "SEEKING_OBJECT"
                /\ run'[1].nav_state.current_position = rset.start
                /\ run'[1].nav_state.waypoints = <<>>
                /\ run'[1].nav_state.iteration_count = 0
                /\ run'[1].nav_state.used_objects = rset.seed]_vars

\* A request answered with a route of a later variant although its first
\* variant failed.
C21_Witness ==
    /\ rset.phase = "RETURNED"
    /\ rset.outcomes[1] = "FAILED"
    /\ \E k \in DOMAIN rset.outcomes : k > 1 /\ rset.outcomes[k] = "DONE"

\* C22: the RouteResults of one request have pairwise distinct ids and are
\* labelled "Route 1", "Route 2", ... in generation order (each route gets
\* the next label when it is assembled and keeps it), so that looking a route
\* up by id, as the frontend does for the selected route, gives that route.
C22_RouteIdsIdentifyRoutes ==
    /\ [](\A i, j \in DOMAIN rset.routes :
             /\ rset.routes[i].label = <<"Route", i>>
             /\ i # j => rset.routes[i].id # rset.routes[j].id
             /\ selectedRoute(rset.routes, rset.routes[i].id) = rset.routes[i])
    /\ [][\A i \in DOMAIN rset.routes :
             /\ i \in DOMAIN rset'.routes
             /\ rset'.routes[i] = rset.routes[i]]_vars

\* A request answered with three routes; the lookup of the third route's id
\* does not fall back to the first route.
C22_Witness ==
    /\ rset.phase = "RETURNED"
    /\ Len(rset.routes) = 3
    /\ selectedRoute(rset.routes, rset.routes[3].id) # rset.routes[1]

\* C23: a leg that its three stop conditions do not end is ended by the Leg
\* Follower's step ceiling, and the Route Planner treats that as object_lost:
\* every leg in progress leads to a state in which the planner has logged a
\* waypoint for the followed object, holds its name in used_objects and is
\* back at the loop test for the next iteration, with the run not failed.
C23_StepCeilingEndsLegAsObjectLost ==
    \A r \in Runs :
        Following(r)
        ~> (/\ Seeking(r)
            /\ run[r].best_object \in run[r].nav_state.used_objects
            /\ LegWaypoints(r) # <<>>
            /\ LastLeg(r).reference_object = run[r].best_object)

\* A position with latitude in [-90, 90] and longitude in [-180, 180].
InRange(position) ==
    /\ -90 <= position.latitude /\ position.latitude <= 90
    /\ -180 <= position.longitude /\ position.longitude <= 180

OutOfRange(exchange) == ~InRange(exchange.start) \/ ~InRange(exchange.target)

\* C24: a request whose start or target has a latitude outside [-90, 90] or
\* a longitude outside [-180, 180] is answered with InvalidInput while the
\* catalog, the planner and the Route Set Builder stay untouched, and never
\* is in computation; on the frontend a step of the coordinate fields (a
\* change of a stored location that is neither a click on the map nor a swap
\* of the two locations) stores a position in range only, so an entry out of
\* range leaves the store as it is.
C24_InvalidInputRejectedFirst ==
    /\ [](\A k \in DOMAIN app.http :
             OutOfRange(app.http[k]) => app.http[k].status \in {"sent", "error"})
    /\ []((rset.phase # "IDLE" \/ Active # {})
             => \E k \in DOMAIN app.http :
                   app.http[k].status = "computing" /\ ~OutOfRange(app.http[k]))
    /\ [][\A k \in DOMAIN app.http :
             (/\ OutOfRange(app.http[k])
              /\ Len(app'.http) = Len(app.http)
              /\ app'.http[k].status # app.http[k].status)
             => /\ app'.http[k].status = "error"
                /\ app'.http[k].detail = "InvalidInput"
                /\ UNCHANGED <<catalog, run, rset>>]_vars
    /\ [][(/\ app' = app
            /\ ~(/\ store'.startLocation = store.targetLocation
                 /\ store'.targetLocation = store.startLocation))
             => /\ store'.startLocation # store.startLocation
                   => ~store'.startLocation.null /\ InRange(store'.startLocation)
                /\ store'.targetLocation # store.targetLocation
                   => ~store'.targetLocation.null /\ InRange(store'.targetLocation)]_vars

\* A request with a longitude out of range has been answered with
\* InvalidInput while a location typed into the coordinate fields is stored.
C24_Witness ==
    /\ \E k \in DOMAIN app.http :
          /\ OutOfRange(app.http[k])
          /\ app.http[k].status = "error"
          /\ app.http[k].detail = "InvalidInput"
    /\ store.startLocation = LatLon(0, 0)

\* C25: the angular separation min(|a-b|, 360-|a-b|) the selection computes
\* between an azimuth and the target bearing is symmetric in its arguments
\* and lies in [0, 180] for angles in [0, 360); between 10 and 350 it is 20.
C25_AngularSeparationFolded ==
    \A i \in DOMAIN sel.visible_objects :
        LET a == sel.visible_objects[i].azimuth
            b == sel.target_bearing
        IN  /\ angular_distance(a, b) = angular_distance(b, a)
            /\ angular_distance(a, b) >= 0
            /\ angular_distance(a, b) <= 180
            /\ ({a, b} = {10, 350} => angular_distance(a, b) = 20)
            /\ (sel.called /\ sel.best_object.name # NoneName)
               => angular_distance(sel.best_object.azimuth, b) <= angular_distance(a, b)

\* The selection has preferred a candidate at azimuth 10 to one at azimuth
\* 180 for the target bearing 350.
C25_Witness ==
    /\ sel.called
    /\ sel.target_bearing = 350
    /\ sel.best_object.name # NoneName
    /\ sel.best_object.azimuth = 10
    /\ \E i \in DOMAIN sel.visible_objects : sel.visible_objects[i].azimuth = 180

\* C26: whenever a leg has stopped with reason target_reached, the next pass
\* of the planner ends the run in DONE with the final target_reached waypoint
\* without a reference object, whatever the index of the leg up to
\* max_iterations: the run neither selects another object nor fails.
C26_TargetReachedLegEndsDone ==
    [][\A r \in Runs :
          (/\ Seeking(r)
           /\ HasLastLeg(r)
           /\ LastLeg(r).reason = "target_reached"
           /\ run[r].nav_state.iteration_count <= run[r].max_iterations
           /\ run'[r] # run[r])
          => /\ run'[r].phase = "DONE"
             /\ Len(run'[r].returned) = Len(run[r].nav_state.waypoints) + 1
             /\ run'[r].returned[Len(run'[r].returned)].reason = "target_reached"
             /\ run'[r].returned[Len(run'[r].returned)].reference_object = NoneName]_vars

\* C27: the distance to the target never increases from one waypoint to the
\* next: the first waypoint is no farther from the target than the start,
\* every later one no farther than the one before, whatever the stop reason
\* of its leg (it may be as far, when the leg has zero length).
C27_WaypointsNeverRecede ==
    \A r \in Active :
        LET wps == run[r].nav_state.waypoints
        IN  \A i \in DOMAIN wps :
                /\ wps[i].reason \in {"object_lost", "closest_approach", "target_reached"}
                /\ DistanceToTarget(r, wps[i].position)
                      <= DistanceToTarget(r, IF i = 1 THEN run[r].start_position
                                             ELSE wps[i - 1].position)

\* A run with a leg that came nearer to the target, a leg of zero length
\* after it and legs of two different stop reasons.
C27_Witness ==
    \E r \in Active :
        LET wps == run[r].nav_state.waypoints
        IN  /\ Len(wps) >= 2
            /\ wps[1].reference_object # NoneName
            /\ wps[2].reference_object # NoneName
            /\ DistanceToTarget(r, wps[1].position)
                  < DistanceToTarget(r, run[r].start_position)
            /\ wps[2].position = wps[1].position
            /\ wps[2].reason # wps[1].reason

\* The angular error of a candidate of the observed selection, and the error
\* after the discount for a planet, the Moon or the Sun.
ErrorOf(obj) == angular_separation(obj.azimuth, sel.target_bearing)
DiscountedErrorOf(obj) ==
    IF obj.object_type \in {"planet", "moon", "sun"}
    THEN (ErrorOf(obj) * MajorDiscountPercent) \div 100
    ELSE ErrorOf(obj)
Stars == {i \in DOMAIN sel.visible_objects :
             sel.visible_objects[i].object_type = "star"}
Majors == {i \in DOMAIN sel.visible_objects :
              sel.visible_objects[i].object_type \in {"planet", "moon", "sun"}}
PrioritizedSelection ==
    sel.called /\ sel.prioritize_major /\ sel.visible_objects # <<>>

ReferencedNames(r) ==
    {LegWaypoints(r)[i].reference_object : i \in DOMAIN LegWaypoints(r)}

C30_OneRequestInFlight ==
    /\ [](/\ Len(app.http) <= 1
          /\ (app.http # <<>>) <=> store.isCalculating)
    /\ [][store.isCalculating => (~canCalculate(store) /\ Len(app'.http) <= Len(app.http))]_vars
    /\ [][Len(app'.http) < Len(app.http) => ~store'.isCalculating]_vars

\* A second request is in flight after an earlier one has settled with an
\* error: clearRoute has cleared the store's error and left isCalculating set.
C30_Witness ==
    /\ app.http # <<>>
    /\ store.isCalculating
    /\ app.error \in {InvalidInputMessage, NotAFunctionMessage}
    /\ store.error = ""

\* The step in which handleCalculateRoute resumes with exchange k.
Settles(k) == k \in DOMAIN app.http /\ app'.http = Without(app.http, k)

\* C31: swapLocations leaves routes empty and selectedRouteId null, and
\* they stay so until a calculation that was started after the swap
\* succeeds: routes that are empty become non-empty only in the step that
\* handles the successful response of a request that was not in flight
\* when the locations were swapped.
C31_StaleResponseNeverPopulatesRoutes ==
    /\ [][SwapLocations => /\ store'.routes = <<>>
                           /\ store'.selectedRouteId = NoRoute.id]_vars
    /\ [][(store.routes = <<>> /\ store.selectedRouteId = NoRoute.id
           /\ (store'.routes # <<>> \/ store'.selectedRouteId # NoRoute.id))
          => \E k \in DOMAIN app.http :
                /\ Settles(k)
                /\ app.http[k].status = "done"
                /\ ~app.http[k].stale]_vars

\* The locations were swapped while a request was in flight, its
\* response has arrived with routes, and the store shows none.
C31_Witness ==
    \E k \in DOMAIN app.http :
        /\ app.http[k].stale
        /\ app.http[k].status = "done"
        /\ app.http[k].routes # <<>>
        /\ store.startLocation = app.http[k].target
        /\ store.routes = <<>>

\* C32: when a route calculation fails, the store ends with routes empty,
\* selectedRouteId null, error equal to the failure message and
\* isCalculating false; the routes shown before the calculation started
\* are not restored.
C32_FailureLeavesNoRoutes ==
    [][\A k \in DOMAIN app.http :
          (Settles(k) /\ app.http[k].status = "error")
          => /\ store'.routes = <<>>
             /\ store'.selectedRouteId = NoRoute.id
             /\ store'.error = app.http[k].detail
             /\ ~store'.isCalculating]_vars

\* A calculation has failed with InvalidInput and has been handled.
C32_Witness ==
    /\ app.http = <<>>
    /\ store.error = InvalidInputMessage
    /\ app.error = InvalidInputMessage
    /\ store.routes = <<>>
    /\ ~store.isCalculating

\* C33: in every state reachable through setRoutes, the route chips,
\* swapLocations, clearRoute, reset and a reload, selectedRouteId is null
\* or the id of a route in routes; it is null whenever routes is empty, and
\* a step that changes routes to a non-empty list leaves it at the id of the
\* first route.
C33_SelectedRouteIdIsValid ==
    /\ [](/\ \/ store.selectedRouteId = NoRoute.id
             \/ \E i \in DOMAIN store.routes :
                   store.routes[i].id = store.selectedRouteId
          /\ store.routes = <<>> => store.selectedRouteId = NoRoute.id)
    /\ [][(store'.routes # store.routes /\ store'.routes # <<>>)
          => store'.selectedRouteId = store'.routes[1].id]_vars

\* The second of two routes is selected, and stays so over a reload.
C33_Witness ==
    /\ Len(store.routes) = 2
    /\ store.selectedRouteId = store.routes[2].id
    /\ sim.reloaded

\* C34: prioritizeMajor and planetsOnly are never both true in the store;
\* turning one on turns the other off, and turning one off leaves the
\* other unchanged.
C34_ModesMutuallyExclusive ==
    /\ ~(store.prioritizeMajor /\ store.planetsOnly)
    /\ ~setPrioritizeMajor(store, TRUE).planetsOnly
    /\ ~setPlanetsOnly(store, TRUE).prioritizeMajor
    /\ setPrioritizeMajor(store, FALSE).planetsOnly = store.planetsOnly
    /\ setPlanetsOnly(store, FALSE).prioritizeMajor = store.prioritizeMajor

\* planetsOnly is on in a store that holds routes for more than one route.
C34_Witness ==
    /\ store.planetsOnly
    /\ ~store.prioritizeMajor
    /\ store.maxRoutes > 1
    /\ store.routes # <<>>

\* C38 as stated: whenever the store holds at least one route and both
\* locations are set, the simulation has a non-empty path built from the
\* selected route (start, the route's waypoint positions in order, target)
\* and the simulation controls are shown.
C38_RoutesGiveSimulationPath ==
    (store.routes # <<>> /\ ~store.startLocation.null /\ ~store.targetLocation.null)
    => /\ sim.routePoints # <<>>
       /\ sim.routePoints =
              path_points(store.startLocation,
                          selectedRoute(store.routes, store.selectedRouteId).waypoints,
                          store.targetLocation)
       /\ SimulationControls(store) = "controls"

\* The fields the persist middleware is said to keep.
PersistedFields ==
    {"startLocation", "targetLocation", "startLocationName", "targetLocationName",
     "routes", "selectedRouteId", "mapCenter", "mapZoom", "prioritizeMajor",
     "planetsOnly", "maxRoutes"}

\* C39: a page reload preserves exactly startLocation, targetLocation, both
\* location names, routes, selectedRouteId, mapCenter, mapZoom,
\* prioritizeMajor, planetsOnly and maxRoutes; every other field comes back
\* at its initial value, so no calculation in progress and no running
\* simulation is restored.
C39_ReloadKeepsPersistedFieldsOnly ==
    [][sim'.reloaded
       => /\ \A key \in PersistedFields : store'[key] = store[key]
          /\ \A key \in (DOMAIN store) \ PersistedFields :
                store'[key] = InitialStore[key]
          /\ ~store'.isCalculating /\ ~store'.isSimulating
          /\ ~sim'.requestRef.pending]_vars

\* The page has been loaded again and shows the locations, the two routes
\* with the second selected, and the settings of before.
C39_Witness ==
    /\ sim.reloaded
    /\ ~store.startLocation.null /\ ~store.targetLocation.null
    /\ Len(store.routes) = 2 /\ store.selectedRouteId = 2
    /\ store.prioritizeMajor /\ store.maxRoutes = 2
    /\ ~store.isCalculating /\ ~store.isSimulating /\ store.error = ""

\* C35: the simulation progress stays between 0 and 1 (0 and ProgressUnits
\* here) in every state reached through animation frames, the slider, play
\* and pause, reset and the speed choice; and whatever time the pending frame
\* finds elapsed, the progress it writes is in that range, and is exactly 1
\* when the advance would reach or pass 1.
C35_ProgressStaysInUnitInterval ==
    /\ store.simulationProgress \in 0 .. ProgressUnits
    /\ (sim.requestRef.pending /\ sim.lastTimeRef # "undefined") =>
          \A deltaTime \in DeltaTimes :
             LET next == animate(store, sim, deltaTime)
                 advanced == sim.requestRef.simulationProgress
                                + sim.requestRef.simulationSpeed * deltaTime
             IN  /\ next.simulationProgress \in 0 .. ProgressUnits
                 /\ (advanced >= ProgressUnits) =>
                       next.simulationProgress = ProgressUnits

\* A simulation at 10x that a frame has carried to the end and stopped.
C35_Witness ==
    /\ store.simulationProgress = ProgressUnits
    /\ ~store.isSimulating
    /\ sim.lastTimeRef # "undefined"
    /\ store.simulationSpeed = 10 * HalfSpeedsPerUnit

\* C36: a running simulation whose frames keep arriving, each after some
\* time, completes: the progress eventually is 1 with the simulation stopped;
\* the frame that stops the simulation is the one that writes 1; and once the
\* simulation has stopped no frame changes the progress.
C36_RunningSimulationCompletes ==
    /\ store.isSimulating ~> (store.simulationProgress = ProgressUnits /\ ~store.isSimulating)
    /\ [][(store.isSimulating /\ ~store'.isSimulating) => store'.simulationProgress = ProgressUnits]_vars
    /\ [][~store.isSimulating => store'.simulationProgress = store.simulationProgress]_vars

\* A simulation at the slowest speed that frames have completed, with no
\* frame left requested.
C36_Witness ==
    /\ store.simulationProgress = ProgressUnits
    /\ ~store.isSimulating
    /\ sim.lastTimeRef # "undefined"
    /\ ~sim.requestRef.pending
    /\ store.simulationSpeed = HalfSpeedsPerUnit \div 2

\* C37: on a path of positive total length, once the position update has
\* run for the progress of the store, the segment index it picked is one of
\* the path's segments, progress * total lies between the length before that
\* segment and the length through it, the fraction within the segment is in
\* [0, 1] and is 0 on a segment of length zero; at progress 0 the position
\* is the start of the path and at progress 1 it is at the target.
C37_PositionUpdatePicksSegment ==
    (sim.totalDistance > 0 /\ ~store.currentSimulationPosition.null) =>
       LET i == sim.segmentIndex
           targetDist == store.simulationProgress * sim.totalDistance
           before == sum_of(SubSeq(sim.segmentDistances, 1, i - 1))
           through == sum_of(SubSeq(sim.segmentDistances, 1, i))
           target == sim.routePoints[Len(sim.routePoints)]
       IN  /\ i \in 1 .. Len(sim.segmentDistances)
           /\ before * ProgressUnits <= targetDist
           /\ targetDist <= through * ProgressUnits
           /\ 0 <= sim.segmentProgress[1]
           /\ sim.segmentProgress[1] <= sim.segmentProgress[2]
           /\ sim.segmentDistances[i] = 0 => sim.segmentProgress[1] = 0
           /\ store.simulationProgress = 0 =>
                 store.currentSimulationPosition = sim.routePoints[1]
           /\ store.simulationProgress = ProgressUnits =>
                 /\ store.currentSimulationPosition.latitude = target.latitude
                 /\ distanceTo(store.currentSimulationPosition, target) = 0

\* The progress is 1 on a path that ends with a segment of length zero: the
\* update stops at an earlier segment and still arrives at the target.
C37_Witness ==
    /\ sim.totalDistance > 0
    /\ store.simulationProgress = ProgressUnits
    /\ sim.segmentIndex < Len(sim.segmentDistances)
    /\ sim.segmentProgress[1] = sim.segmentProgress[2]
    /\ store.currentSimulationPosition = sim.routePoints[Len(sim.routePoints)]


====
